---- MODULE Spec2Model ----
(***************************************************************************)
(* Model of the policy push tool                                           *)
(*   src/pov-automation/02_policy_scripts/                                 *)
(*       push_policy_refactored_original-gemini.py                         *)
(* One run of push_policy_<domain> against a remote policy store, for the  *)
(* five policy domains (path, qos, nat, security, performance).            *)
(***************************************************************************)
EXTENDS Integers, Sequences, FiniteSets, TLC

(***************************************************************************)
(* Bounds of the model.                                                    *)
(***************************************************************************)
\* remote calls that may fail during one behaviour
MaxFailures == 1
\* runs of the tool in the specification that runs it again
MaxRuns == 2
\* largest list length / number of sub-keys of the differ's inputs
MaxLen == 2

(***************************************************************************)
(* Values of a YAML / JSON attribute map.  Every value is a record of the  *)
(* same shape: t is the Python type, s the scalar, l the list elements,    *)
(* m the (sub-key, value) pairs of a nested dict.                          *)
(***************************************************************************)
Null == [t |-> "null", s |-> "", l |-> <<>>, m |-> {}]
Str(x) == [t |-> "str", s |-> x, l |-> <<>>, m |-> {}]
Bool(b) == [t |-> "bool", s |-> IF b THEN "true" ELSE "false", l |-> <<>>, m |-> {}]
List(q) == [t |-> "list", s |-> "", l |-> q, m |-> {}]
Map(ps) == [t |-> "map", s |-> "", l |-> <<>>, m |-> ps]

\* dict.get(key, None)
Get(obj, k) == IF k \in DOMAIN obj THEN obj[k] ELSE Null
\* del dict[key]
Del(obj, k) == [x \in (DOMAIN obj) \ {k} |-> obj[x]]
\* dict[key] = value
Put(obj, k, v) == [x \in (DOMAIN obj) \cup {k} |-> IF x = k THEN v ELSE obj[x]]
\* Python truthiness of a value
Truthy(v) ==
    CASE v.t = "null" -> FALSE
      [] v.t = "bool" -> v.s = "true"
      [] v.t = "str" -> v.s # ""
      [] v.t = "list" -> Len(v.l) > 0
      [] OTHER -> v.m # {}
\* "value is True"
IsTrue(v) == v.t = "bool" /\ v.s = "true"

EmptyObj == [x \in {} |-> Null]

\* iteration order of the keys of the attribute maps of the model
KeyOrder == << "id", "name", "description", "defaultrule_policyset",
               "default_policysetstack", "clone_from", "template",
               "policyrule_order", "destination_zone_policyrule_order",
               "source_zone_policyrule_order", "link_health_policyrule_order",
               "networkpolicyrules", "prioritypolicyrules", "natpolicyrules",
               "ngfwsecuritypolicyrules", "perfmgmtpolicyrules",
               "defaultrule_policyset_id", "policyset_ids",
               "network_context_id", "app_def_ids", "source_zone_id",
               "source_zone_ids", "actions", "thresholdprofile_id",
               "service_context", "paths_allowed", "_etag" >>
SubKeyOrder == << "active_paths", "backup_paths", "l3_failure_paths" >>
IdxTok == << "#0", "#1", "#2", "#3", "#4" >>

KeysOf(obj) == SelectSeq(KeyOrder, LAMBDA k : k \in DOMAIN obj)
SubKeys(v) == { p[1] : p \in v.m }
SubGet(v, k) == (CHOOSE p \in v.m : p[1] = k)[2]
Min(a, b) == IF a < b THEN a ELSE b

(***************************************************************************)
(* dictdiffer.diff as compareconf consumes it: the sequence of yielded     *)
(* items, each with its action and its key path item[1].  dotted = TRUE    *)
(* when item[1] is the dotted string (all path nodes are strings), FALSE   *)
(* when it is a list (a node is a list index).                             *)
(***************************************************************************)
Item(a, d, p) == [act |-> a, dotted |-> d, path |-> p]

RECURSIVE DiffSub(_, _, _, _)
DiffSub(ks, key, a, b) ==
    IF ks = <<>> THEN <<>>
    ELSE (IF Head(ks) \in SubKeys(a) /\ Head(ks) \in SubKeys(b)
             /\ SubGet(a, Head(ks)) # SubGet(b, Head(ks))
          THEN << Item("change", TRUE, <<key, Head(ks)>>) >> ELSE <<>>)
         \o DiffSub(Tail(ks), key, a, b)

RECURSIVE DiffIdx(_, _, _, _)
DiffIdx(i, key, a, b) ==
    IF i > Min(Len(a.l), Len(b.l)) THEN <<>>
    ELSE (IF a.l[i] # b.l[i]
          THEN << Item("change", FALSE, <<key, IdxTok[i]>>) >> ELSE <<>>)
         \o DiffIdx(i + 1, key, a, b)

\* variant: containers are compared by identity, so two lists or two nested
\* maps always count as changed
DiffValByIdentity(key, a, b) ==
    IF a.t \in {"map", "list"} \/ a # b THEN << Item("change", TRUE, <<key>>) >> ELSE <<>>

\* variant: two lists are compared as sets of elements, whatever their order
DiffValUnordered(key, a, b) ==
    IF a.t = "list" /\ b.t = "list"
    THEN IF {a.l[i] : i \in 1..Len(a.l)} # {b.l[i] : i \in 1..Len(b.l)}
            \/ Len(a.l) # Len(b.l)
         THEN << Item("change", TRUE, <<key>>) >> ELSE <<>>
    ELSE IF a # b THEN << Item("change", TRUE, <<key>>) >> ELSE <<>>

DiffVal(key, a, b) ==
    IF a.t = "map" /\ b.t = "map"
    THEN DiffSub(SubKeyOrder, key, a, b)
         \o (IF SubKeys(b) \ SubKeys(a) # {} THEN << Item("add", TRUE, <<key>>) >> ELSE <<>>)
         \o (IF SubKeys(a) \ SubKeys(b) # {} THEN << Item("remove", TRUE, <<key>>) >> ELSE <<>>)
    ELSE IF a.t = "list" /\ b.t = "list"
    THEN DiffIdx(1, key, a, b)
         \o (IF Len(b.l) > Len(a.l) THEN << Item("add", TRUE, <<key>>) >> ELSE <<>>)
         \o (IF Len(a.l) > Len(b.l) THEN << Item("remove", TRUE, <<key>>) >> ELSE <<>>)
    ELSE IF a # b THEN << Item("change", TRUE, <<key>>) >> ELSE <<>>

RECURSIVE DiffKeys(_, _, _)
DiffKeys(ks, first, second) ==
    IF ks = <<>> THEN <<>>
    ELSE (IF Head(ks) \in DOMAIN second
          THEN DiffVal(Head(ks), first[Head(ks)], second[Head(ks)]) ELSE <<>>)
         \o DiffKeys(Tail(ks), first, second)

\* variant: a key of the first map that the second lacks is yielded under its
\* own name instead of the root path
diff_named_removals(first, second) ==
    LET Missing(k) == k \notin DOMAIN second
        ks == SelectSeq(KeysOf(first), Missing)
    IN  DiffKeys(KeysOf(first), first, second)
        \o [n \in 1..Len(ks) |-> Item("remove", TRUE, << ks[n] >>)]

diff(first, second) ==
    DiffKeys(KeysOf(first), first, second)
    \o (IF (DOMAIN second) \ (DOMAIN first) # {} THEN << Item("add", TRUE, <<>>) >> ELSE <<>>)
    \o (IF (DOMAIN first) \ (DOMAIN second) # {} THEN << Item("remove", TRUE, <<>>) >> ELSE <<>>)

InSeq(x, q) == \E n \in 1..Len(q) : q[n] = x

RECURSIVE CompareItems(_, _)
CompareItems(result, resources_updated) ==
    IF result = <<>> THEN resources_updated
    ELSE LET item == Head(result)
         IN  CompareItems(Tail(result),
                 IF item.dotted
                 THEN IF Len(item.path) > 1
                      THEN \* "." in item[1]: tmp = item[1].split(".")
                           IF ~InSeq(item.path[1], resources_updated)
                           THEN Append(resources_updated, item.path[1])
                           ELSE resources_updated
                      ELSE IF item.path = <<>>
                           THEN \* item[1] == '': continue
                                resources_updated
                           ELSE IF ~InSeq(item.path[1], resources_updated)
                                THEN Append(resources_updated, item.path[1])
                                ELSE resources_updated
                 ELSE \* item[1] is a list
                      IF ~InSeq(item.path[1], resources_updated)
                      THEN Append(resources_updated, item.path[1])
                      ELSE resources_updated)

\* variant: every yielded item adds its first path node, seen before or not
HasPath(item) == item.path # <<>>

FirstNodes(result) == [n \in 1..Len(result) |-> result[n].path[1]]

compareconf_every_item(origconf, curconf) ==
    FirstNodes(SelectSeq(diff(origconf, curconf), HasPath))

compareconf(origconf, curconf) == CompareItems(diff(origconf, curconf), <<>>)

\* variant: the payload is rebuilt from the desired keys and the id alone
update_payload_desired_only(source, dest) ==
    [k \in (DOMAIN source) \cup ({"id"} \cap DOMAIN dest) |->
        IF k \in DOMAIN source THEN source[k] ELSE dest[k]]

\* update_payload(source, dest): every key of source overwrites dest
update_payload(source, dest) ==
    [k \in (DOMAIN source) \cup (DOMAIN dest) |->
        IF k \in DOMAIN source THEN source[k] ELSE dest[k]]


(***************************************************************************)
(* The five policy domains and their field names.                          *)
(***************************************************************************)
PATH == "path"
QOS == "qos"
NAT == "nat"
SECURITY == "security"
PERFORMANCE == "performance"
ALL == "all"
Domains == {PATH, QOS, NAT, SECURITY, PERFORMANCE}

\* NETWORK_POLICY_RULES, PRIORITY_POLICY_RULES, ... : key of a Set's rules
RulesKey(d) ==
    CASE d = PATH -> "networkpolicyrules"
      [] d = QOS -> "prioritypolicyrules"
      [] d = NAT -> "natpolicyrules"
      [] d = SECURITY -> "ngfwsecuritypolicyrules"
      [] OTHER -> "perfmgmtpolicyrules"

\* the rule-order fields of a Set
OrderKeys(d) ==
    CASE d = NAT -> << "destination_zone_policyrule_order", "source_zone_policyrule_order" >>
      [] d = SECURITY -> << "policyrule_order" >>
      [] d = PERFORMANCE -> << "link_health_policyrule_order" >>
      [] OTHER -> << >>
OrderKeySet(d) == { OrderKeys(d)[n] : n \in 1..Len(OrderKeys(d)) }

\* the reference field of a Rule that the model carries
RefKey(d) ==
    CASE d = NAT -> "source_zone_id"
      [] d = PERFORMANCE -> "thresholdprofile_id"
      [] OTHER -> "app_def_ids"

\* shared-object inventories read by create_global_dicts_*
app_name_id == [n \in {"HTTPS"} |-> "app1"]
natzone_name_id == [n \in {"Internet"} |-> "zone1"]
perf_threshold_name_id == [n \in {"Gold"} |-> "tp1"]
nwcontext_name_id == [n \in {"Guest"} |-> "nc1"]
seczone_name_id == [n \in {"Trust"} |-> "sz1"]
natpool_name_id == [n \in {"Pool1"} |-> "pool1"]
\* NATACTIONS_name_enum, two of its entries
NATACTIONS_name_enum ==
    [n \in {"No NAT", "Source NAT"} |-> IF n = "No NAT" THEN "no_nat" ELSE "source_nat_dynamic"]

\* one entry of a NAT rule's actions list: {"type": ..., "nat_pool_id": ...}
ActTypes == {"No NAT", "Source NAT", "no_nat", "source_nat_dynamic"}
ActPools == {"Pool1", "PoolX", "pool1"}
Action(type, pool) == type \o "|" \o pool
ActionType(a) == (CHOOSE p \in ActTypes \X ActPools : Action(p[1], p[2]) = a)[1]
ActionPool(a) == (CHOOSE p \in ActTypes \X ActPools : Action(p[1], p[2]) = a)[2]

(***************************************************************************)
(* Names of the model's objects.                                           *)
(***************************************************************************)
SetA == "Corp"
StackK == "Branch (Simple)"
StackN == "Hub"
global_default_name == "Default Performance Policy Set (Simple)"
\* name.replace(" (Simple)", "") over the Stack names of the model
StripSimple(name) == IF name = "Branch (Simple)" THEN "Branch" ELSE name
\* expected_name of push_policy_path / _qos / _security
expected_name(stackname) == StripSimple(stackname) \o " Default Rule Policy Set (Simple)"
\* the default Set of the domain's Stack
SetD(d) == IF d = PERFORMANCE THEN global_default_name ELSE expected_name(StackK)
SetOrder(d) == << SetA, SetD(d) >>
RuleOrder == << "R1", "R2" >>
StackOrder == << StackK, StackN >>

SeqToSet(q) == { q[n] : n \in 1..Len(q) }
\* the names of keys, in the iteration order order
OrderedNames(order, keys) == SelectSeq(order, LAMBDA n : n \in keys)

(***************************************************************************)
(* Live objects of the remote store before the first run.                  *)
(***************************************************************************)
SetId0(name) == "id:" \o name
StackId0(name) == "id:" \o name
RuleId0(setname, rulename) == "id:" \o setname \o "/" \o rulename

LiveRuleObj(d, setname, rulename) ==
    LET base == [k \in {"id", "name", "description", "_etag", RefKey(d)} |->
                    CASE k = "id" -> Str(RuleId0(setname, rulename))
                      [] k = "name" -> Str(rulename)
                      [] k = "description" -> Str("d0")
                      [] k = "_etag" -> Str("e1")
                      [] OTHER -> IF d = NAT THEN Str("zone1")
                                  ELSE IF d = PERFORMANCE THEN Str("tp1")
                                  ELSE List(<< "app1" >>)]
    IN  IF d = PATH
        THEN Put(Put(base, "service_context", Null), "paths_allowed",
                 Map({ <<"active_paths", "[x]">>, <<"backup_paths", "null">>,
                       <<"l3_failure_paths", "null">> }))
        ELSE base

LiveSetObj(d, name, isDefault, rulenames) ==
    [k \in {"id", "name", "description", "defaultrule_policyset", "clone_from", "_etag"}
            \cup OrderKeySet(d) |->
        CASE k = "id" -> Str(SetId0(name))
          [] k = "name" -> Str(name)
          [] k = "description" -> Str("d0")
          [] k = "defaultrule_policyset" -> Bool(isDefault)
          [] k = "clone_from" -> Null
          [] k = "_etag" -> Str("e1")
          [] OTHER -> IF rulenames = {} THEN Null
                      ELSE List([n \in 1..Len(OrderedNames(RuleOrder, rulenames)) |->
                                   RuleId0(name, OrderedNames(RuleOrder, rulenames)[n])])]

LiveStackObj(d, name, isDefault, memberIds, defaultId) ==
    [k \in {"id", "name", "description", "default_policysetstack",
            "defaultrule_policyset_id", "policyset_ids", "_etag"} |->
        CASE k = "id" -> Str(StackId0(name))
          [] k = "name" -> Str(name)
          [] k = "description" -> Str("d0")
          [] k = "default_policysetstack" -> Bool(isDefault)
          [] k = "defaultrule_policyset_id" -> Str(defaultId)
          [] k = "policyset_ids" -> IF memberIds = <<>> THEN Null ELSE List(memberIds)
          [] OTHER -> Str("e1")]

(***************************************************************************)
(* The desired document (YAML) of one domain.  A section is absent         *)
(* (present = FALSE) or a list of single-key entries {name: body}; the     *)
(* rules of a Set are the list under RulesKey, carried in "rules" with a   *)
(* marker value under the key in the body.                                 *)
(***************************************************************************)
RulesMarker == Str("<rules>")

\* The body of rule R1 repeats its name (as an export that keeps "name"
\* does), the body of R2 does not; R1 differs from the live R1, R2 does not.
DocRuleBody(d, rulename) ==
    LET base == [k \in {"description", RefKey(d)}
                        \cup (IF rulename = "R1" THEN {"name"} ELSE {}) |->
                    CASE k = "description" -> Str(IF rulename = "R1" THEN "d1" ELSE "d0")
                      [] k = "name" -> Str(rulename)
                      [] OTHER -> IF d = NAT THEN Str("Internet")
                                  ELSE IF d = PERFORMANCE THEN Str("Gold")
                                  ELSE List(<< "HTTPS" >>)]
    IN  IF d = PATH
        THEN Put(base, "paths_allowed",
                 Map({ <<"active_paths", "[x]">>, <<"backup_paths", "[]">>,
                       <<"l3_failure_paths", "null">> }))
        ELSE base

DocRules(d, rulenames) ==
    [n \in 1..Len(rulenames) |-> [name |-> rulenames[n], body |-> DocRuleBody(d, rulenames[n])]]

\* hasRules: the Set entry has its rules key; rulenames: the rules under it
DocSetEntry(d, name, hasRules, rulenames) ==
    LET keys == {"description", "defaultrule_policyset", "clone_from"}
                \cup (IF hasRules THEN OrderKeySet(d) \cup {RulesKey(d)} ELSE {})
                \cup (IF d = QOS THEN {"template"} ELSE {})
    IN  [name |-> name,
         body |-> [k \in keys |->
                    CASE k = "description" -> Str(IF name = SetA THEN "d1" ELSE "d0")
                      [] k = "defaultrule_policyset" -> Bool(name # SetA)
                      [] k = "clone_from" -> IF name = SetA THEN Str("id:cloned") ELSE Null
                      [] k = "template" -> Bool(name = SetA)
                      [] k = RulesKey(d) -> RulesMarker
                      [] OTHER -> List(RuleOrder)],
         rules |-> IF hasRules THEN DocRules(d, rulenames) ELSE << >>]

\* a Stack entry whose defaultrule_policyset_id names the Set ref and whose
\* policyset_ids lists members
DocStackEntry(d, name, ref, members) ==
    [name |-> name,
     body |-> [k \in {"description", "default_policysetstack",
                      "defaultrule_policyset_id", "policyset_ids"} |->
                CASE k = "description" -> Str("d0")
                  [] k = "default_policysetstack" -> Bool(FALSE)
                  [] k = "defaultrule_policyset_id" -> Str(ref)
                  [] OTHER -> List(members)],
     rules |-> << >>]

Section(present, items) == [present |-> present, items |-> items]


(***************************************************************************)
(* State.                                                                  *)
(***************************************************************************)
VARIABLES
    policytype,         \* the domain being pushed
    selection,          \* --policytype: that domain, or all
    dryrun,             \* --dryrun of the integrated restore tool
    dicts,              \* run over all domains: domain -> its global name dictionaries
    loaded_config,      \* the desired document: [sets, stacks] sections
    liveSets,           \* remote store: Set id -> object
    liveRules,          \* remote store: Rule id -> [set, obj]
    liveStacks,         \* remote store: Stack id -> object
    nextId,             \* remote store: ids handed out so far
    set_name_config,    \* <domain>policyset_name_config
    set_name_id,        \* <domain>policyset_name_id (module-level dict)
    set_id_name,        \* <domain>policyset_id_name (module-level dict)
    stack_name_config,  \* <domain>policystack_name_config
    rule_name_id,       \* <domain>policyrule_name_id, keyed (set id, rule name)
    fresh_id_map,       \* push_policy_nat / _performance: fresh_id_map
    local_id_name,      \* push_policy_nat / _performance: local <x>policyset_id_name
    pc,                 \* position in push_policy_<domain>
    si,                 \* index of the next desired Set
    cur,                \* name of the Set being reconciled
    set_yaml,           \* set_yaml of the Set being reconciled
    set_id,             \* set_id / set_ctrl["id"] of the Set being reconciled
    isNew,              \* the Set was created in this run (new-set branch)
    rules_yaml,         \* desired rules of the Set: sequence of [name, body]
    rules_ctrl,         \* rules_ctrl: rule name -> live rule read from the store
    rule_mode,          \* the rule loop of the branch: "create", "compare", "force"
    ri,                 \* index of the next desired Rule
    rule_ids,           \* nat_rule_name_id / perf_rule_name_id / ngfwrule_name_id
    orders,             \* saved order lists: order key -> value
    orphans,            \* live rules still to delete for this Set
    ki,                 \* index of the next desired Stack
    dq,                 \* names still to visit in the running delete loop
    calls,              \* history: the remote calls issued, in order
    failures,           \* history: remote calls that failed so far
    budget,             \* remote calls that may still fail
    run,                \* history: number of the current run of the tool
    visited,            \* history: the desired objects the loops have reached
    origconf,           \* compareconf on its own: first argument
    curconf,            \* compareconf on its own: second argument
    confdelta           \* compareconf on its own: the result

vars == << policytype, selection, dryrun, dicts, loaded_config, liveSets, liveRules, liveStacks, nextId,
           set_name_config, set_name_id, set_id_name, stack_name_config,
           rule_name_id, fresh_id_map, local_id_name, pc, si, cur, set_yaml,
           set_id, isNew, rules_yaml, rules_ctrl, rule_mode, ri, rule_ids,
           orders, orphans, ki, dq, calls, failures, budget, run, visited,
           origconf, curconf, confdelta >>

diffVars == << origconf, curconf, confdelta >>
storeVars == << liveSets, liveRules, liveStacks, nextId >>
catalogVars == << set_name_config, set_name_id, set_id_name, stack_name_config,
                  rule_name_id >>
inputVars == << policytype, selection, dryrun, dicts, loaded_config >>
setVars == << cur, set_yaml, set_id, isNew, rules_yaml, rules_ctrl, rule_mode,
              ri, rule_ids, orders, orphans >>

EmptyMap == [x \in {} |-> ""]
\* the dictionaries of the other domains are not modelled in the run of one
\* domain, whose own dictionaries are the catalog variables
NoDicts == [d \in Domains |-> [sets |-> EmptyMap, stacks |-> EmptyMap]]

(***************************************************************************)
(* create_global_dicts_<domain>: the catalog read from the live store.     *)
(* create_global_dicts_performance keeps the Sets and Stacks by name only. *)
(***************************************************************************)
NameOf(obj) == obj["name"].s
IdOf(obj) == obj["id"].s
ByName(live) ==
    [n \in { NameOf(live[i]) : i \in DOMAIN live } |->
        live[CHOOSE i \in DOMAIN live : NameOf(live[i]) = n]]
NameToId(live) ==
    [n \in { NameOf(live[i]) : i \in DOMAIN live } |->
        CHOOSE i \in DOMAIN live : NameOf(live[i]) = n]
IdToName(live) == [i \in DOMAIN live |-> NameOf(live[i])]
RuleNameToId(rules) ==
    [t \in { << rules[i].set, NameOf(rules[i].obj) >> : i \in DOMAIN rules } |->
        CHOOSE i \in DOMAIN rules : << rules[i].set, NameOf(rules[i].obj) >> = t]

create_global_dicts(d, sets, rules, stacks) ==
    [ set_name_config |-> ByName(sets),
      stack_name_config |-> ByName(stacks),
      set_name_id |-> IF d = PERFORMANCE THEN EmptyMap ELSE NameToId(sets),
      set_id_name |-> IF d = PERFORMANCE THEN EmptyMap ELSE IdToName(sets),
      rule_name_id |-> IF d = PERFORMANCE THEN EmptyMap ELSE RuleNameToId(rules) ]

\* create_global_dicts_all fills the dictionaries of the path, qos, nat and
\* security domains as their own loaders do; of the performance domain it
\* reads the threshold profiles only, not the Sets and Stacks
create_global_dicts_all(d, sets, rules, stacks) ==
    IF d = PERFORMANCE
    THEN create_global_dicts(d, [i \in {} |-> EmptyObj], rules, [i \in {} |-> EmptyObj])
    ELSE create_global_dicts(d, sets, rules, stacks)

\* go(): the loader that the --policytype selection calls
LoadCatalog(sel, d, sets, rules, stacks) ==
    IF sel = ALL THEN create_global_dicts_all(d, sets, rules, stacks)
    ELSE create_global_dicts(d, sets, rules, stacks)

(***************************************************************************)
(* Initial states: a live store, its catalog, and a desired document.      *)
(***************************************************************************)
Presence == {"absent", "plain", "default"}

InitLiveSets(d, liveA, liveK, liveRuleNames) ==
    LET names == (IF liveA # "absent" THEN {SetA} ELSE {})
                 \cup (IF liveK # "absent" THEN {SetD(d)} ELSE {})
    IN  [i \in { SetId0(n) : n \in names } |->
            LET n == CHOOSE x \in names : SetId0(x) = i
            IN  LiveSetObj(d, n, IF n = SetA THEN liveA = "default" ELSE TRUE, liveRuleNames)]

InitLiveRules(d, liveA, liveK, liveRuleNames) ==
    LET names == (IF liveA # "absent" THEN {SetA} ELSE {})
                 \cup (IF liveK # "absent" THEN {SetD(d)} ELSE {})
        pairs == names \X liveRuleNames
    IN  [i \in { RuleId0(p[1], p[2]) : p \in pairs } |->
            LET p == CHOOSE x \in pairs : RuleId0(x[1], x[2]) = i
            IN  [set |-> SetId0(p[1]), obj |-> LiveRuleObj(d, p[1], p[2])]]

InitLiveStacks(d, liveA, liveK) ==
    IF liveK = "absent" THEN [i \in {} |-> EmptyObj]
    ELSE [i \in { StackId0(StackK) } |->
            LiveStackObj(d, StackK, liveK = "default",
                         IF liveA # "absent" THEN << SetId0(SetA) >> ELSE << >>,
                         SetId0(SetD(d)))]

DocSets(d, docSets, docRules) ==
    LET hasRules == docRules # "nokey"
        rn == IF docRules = "R1R2" THEN << "R1", "R2" >>
              ELSE IF docRules = "R1" THEN << "R1" >> ELSE << >>
    IN  CASE docSets = "none" -> Section(FALSE, << >>)
          [] docSets = "empty" -> Section(TRUE, << >>)
          [] docSets = "A" -> Section(TRUE, << DocSetEntry(d, SetA, hasRules, rn) >>)
          [] OTHER -> Section(TRUE, << DocSetEntry(d, SetA, hasRules, rn),
                                       DocSetEntry(d, SetD(d), hasRules, rn) >>)

DocStacks(d, docStacks) ==
    CASE docStacks = "none" -> Section(FALSE, << >>)
      [] docStacks = "empty" -> Section(TRUE, << >>)
      [] docStacks = "K" -> Section(TRUE, << DocStackEntry(d, StackK, SetD(d), << SetA >>) >>)
      [] docStacks = "KA" -> Section(TRUE, << DocStackEntry(d, StackK, SetA, << SetA >>) >>)
      [] docStacks = "N" -> Section(TRUE, << DocStackEntry(d, StackN, SetD(d), << SetA >>) >>)
      [] OTHER -> Section(TRUE, << DocStackEntry(d, StackK, SetD(d), << >>) >>)

InitRun ==
    /\ pc = "begin"
    /\ si = 1
    /\ cur = ""
    /\ set_yaml = EmptyObj
    /\ set_id = ""
    /\ isNew = FALSE
    /\ rules_yaml = << >>
    /\ rules_ctrl = [x \in {} |-> EmptyObj]
    /\ rule_mode = "create"
    /\ ri = 1
    /\ rule_ids = EmptyMap
    /\ orders = EmptyObj
    /\ orphans = << >>
    /\ ki = 1
    /\ dq = << >>
    /\ fresh_id_map = EmptyMap
    /\ local_id_name = EmptyMap

InitWith(maxFail) ==
    /\ policytype \in Domains
    /\ selection \in {policytype, ALL}
    /\ dryrun = FALSE
    /\ dicts = NoDicts
    /\ \E liveA \in Presence, liveK \in Presence,
          liveRuleNames \in { {}, {"R1", "R2"} },
          docSets \in {"none", "empty", "A", "AD"},
          docRules \in {"nokey", "R1", "R1R2"},
          docStacks \in {"none", "empty", "K", "KA", "K0", "N"} :
         /\ loaded_config = [ sets |-> DocSets(policytype, docSets, docRules),
                              stacks |-> DocStacks(policytype, docStacks) ]
         /\ liveSets = InitLiveSets(policytype, liveA, liveK, liveRuleNames)
         /\ liveRules = InitLiveRules(policytype, liveA, liveK, liveRuleNames)
         /\ liveStacks = InitLiveStacks(policytype, liveA, liveK)
    /\ nextId = 0
    /\ LET c == LoadCatalog(selection, policytype, liveSets, liveRules, liveStacks)
       IN  /\ set_name_config = c.set_name_config
           /\ stack_name_config = c.stack_name_config
           /\ set_name_id = c.set_name_id
           /\ set_id_name = c.set_id_name
           /\ rule_name_id = c.rule_name_id
    /\ InitRun
    /\ calls = << >>
    /\ failures = 0
    /\ budget = maxFail
    /\ run = 1
    /\ visited = {}
    /\ origconf = EmptyObj
    /\ curconf = EmptyObj
    /\ confdelta = << >>

Init == InitWith(MaxFailures)


(***************************************************************************)
(* extractfromyaml: None when the key is absent, else the entries keyed    *)
(* by name with the name written into each body.                           *)
(***************************************************************************)
extractfromyaml(section) ==
    [ none |-> ~section.present,
      items |-> [n \in 1..Len(section.items) |->
                   [ name |-> section.items[n].name,
                     body |-> Put(section.items[n].body, "name", Str(section.items[n].name)),
                     rules |-> section.items[n].rules ]] ]

\* extractfromyaml(loaded_config=set_yaml, config_type=<rules key>)
extractrules(d, entry) ==
    extractfromyaml(Section(RulesKey(d) \in DOMAIN entry.body,
                            [n \in 1..Len(entry.rules) |->
                               [ name |-> entry.rules[n].name,
                                 body |-> entry.rules[n].body,
                                 rules |-> << >> ]]))

\* set_yaml.get("natpolicyrules", []): the raw list, names not written in
rawrules(d, entry) == IF RulesKey(d) \in DOMAIN entry.body THEN entry.rules ELSE << >>

DesiredSets == extractfromyaml(loaded_config.sets)
DesiredStacks == extractfromyaml(loaded_config.stacks)
DesiredSetNames == { DesiredSets.items[n].name : n \in 1..Len(DesiredSets.items) }
DesiredStackNames == { DesiredStacks.items[n].name : n \in 1..Len(DesiredStacks.items) }
RuleNamesOf(rules) == { rules[n].name : n \in 1..Len(rules) }

\* the domains whose push function calls .keys() on extractfromyaml's result
NoneUnchecked(d) == d \in {PATH, QOS, SECURITY}

(***************************************************************************)
(* The remote store as the tool sees it: every call returns success or      *)
(* failure; a successful write is applied as sent.                          *)
(***************************************************************************)
\* the object a call addresses, as the store holds it when the call is made
LiveOf(kind, id) ==
    IF kind = "set" /\ id \in DOMAIN liveSets THEN liveSets[id]
    ELSE IF kind = "rule" /\ id \in DOMAIN liveRules THEN liveRules[id].obj
    ELSE IF kind = "stack" /\ id \in DOMAIN liveStacks THEN liveStacks[id]
    ELSE EmptyObj

\* the store holds a Set / Stack that has the name of the payload
LiveNamed(kind, data) ==
    /\ "name" \in DOMAIN data
    /\ \/ kind = "set" /\ \E i \in DOMAIN liveSets : liveSets[i]["name"] = data["name"]
       \/ kind = "stack" /\ \E i \in DOMAIN liveStacks : liveStacks[i]["name"] = data["name"]

\* how the call site prints the outcome of its call: "checked" prints the
\* success line or the ERR line, "okonly" prints the success line and has no
\* else branch, "always" prints the success line without looking at the
\* response, "silent" prints nothing
ReportStyle(d, op, kind, new, narrow) ==
    IF op = "get" \/ narrow THEN "silent"
    ELSE IF d \in {PATH, QOS} THEN "checked"
    ELSE IF op = "delete" THEN "always"
    ELSE IF op = "post"
    THEN (IF d = SECURITY /\ kind = "rule" /\ ~new THEN "okonly" ELSE "checked")
    ELSE IF kind = "rule" /\ d \in {NAT, PERFORMANCE} THEN "checked"
    ELSE "okonly"
ReportWord(op) ==
    CASE op = "post" -> "created" [] op = "put" -> "updated"
      [] op = "delete" -> "deleted" [] OTHER -> "none"
\* the outcome the printed line states, "none" when no line is printed
Report(style, op, ok) ==
    CASE style = "checked" -> IF ok THEN ReportWord(op) ELSE "failed"
      [] style = "okonly" -> IF ok THEN ReportWord(op) ELSE "none"
      [] style = "always" -> ReportWord(op)
      [] OTHER -> "none"
\* the narrow update of a Set's order field(s)
NarrowOrder(d, kind, data) ==
    kind = "set" /\ OrderKeySet(d) # {} /\ DOMAIN data = {"id"} \cup OrderKeySet(d)

Call(op, kind, id, setid, data, ok) ==
    [ op |-> op, kind |-> kind, id |-> id, set |-> setid, data |-> data,
      ok |-> ok, run |-> run, live |-> LiveOf(kind, id), named |-> LiveNamed(kind, data),
      report |-> Report(ReportStyle(policytype, op, kind, isNew,
                                    NarrowOrder(policytype, kind, data)), op, ok) ]

NewId(n) == "new" \o ToString(n + 1)
NFalse(oks) == Cardinality({ n \in 1..Len(oks) : ~oks[n] })

\* rules the store may synthesize when it creates a Set (a QoS Set created
\* from a template, a Security / NAT / Performance Set with its auto rules)
SynthChoices(d, yaml) ==
    IF d = PATH \/ (d = QOS /\ ~Truthy(Get(yaml, "template"))) THEN { {} }
    ELSE { {}, {"R2"} }

\* the live rules of a Set, by name (GET <rules>(set id), items)
RulesOfSet(rules, sid) ==
    LET ids == { i \in DOMAIN rules : rules[i].set = sid }
    IN  [n \in { NameOf(rules[i].obj) : i \in ids } |->
            rules[CHOOSE i \in ids : NameOf(rules[i].obj) = n].obj]

\* the store refuses an object without a name or with a name already taken
NameFree(payload, takenNames) ==
    "name" \in DOMAIN payload /\ payload["name"].s \notin takenNames

StoreCreated(payload, id) == Put(Put(payload, "id", Str(id)), "_etag", Str("e1"))

SynthRules(d, sid, names) ==
    [i \in { sid \o "/" \o n : n \in names } |->
        LET n == CHOOSE x \in names : sid \o "/" \o x = i
        IN  [ set |-> sid, obj |-> Put(LiveRuleObj(d, "", n), "id", Str(i)) ]]

FunUnion(f, g) == [x \in (DOMAIN f) \cup (DOMAIN g) |-> IF x \in DOMAIN f THEN f[x] ELSE g[x]]
FunRemove(f, keys) == [x \in (DOMAIN f) \ keys |-> f[x]]

\* PUT: the payload's keys replace the stored object's
StoreUpdate(live, id, payload) ==
    IF id \in DOMAIN live
    THEN [live EXCEPT ![id] = update_payload(payload, live[id])]
    ELSE live
StoreUpdateRule(rules, id, payload) ==
    IF id \in DOMAIN rules
    THEN [rules EXCEPT ![id].obj = update_payload(payload, rules[id].obj)]
    ELSE rules


(***************************************************************************)
(* Positions after the loops of push_policy_<domain>.                      *)
(***************************************************************************)
Outcomes(mustFail) == IF mustFail THEN {FALSE} ELSE IF budget > 0 THEN {TRUE, FALSE} ELSE {TRUE}

\* after a Set's orphan-rule deletes
AfterRuleDelete(d, new) == IF d = SECURITY /\ ~new THEN "sync" ELSE "sets"
\* after "Finalize Rule Order"
AfterOrder(d, orph) ==
    IF d = SECURITY THEN "sets"
    ELSE IF orph # << >> THEN "ruledel" ELSE "sets"
\* after the loop over the desired rules of a Set
AfterRules(d, new, mode, orph) ==
    IF d \in {NAT, PERFORMANCE} \/ (d = SECURITY /\ new) THEN "order"
    ELSE IF mode = "create" THEN "sets"
    ELSE IF orph # << >> THEN "ruledel"
    ELSE AfterRuleDelete(d, new)

\* variant: the rules of a Set created in the run are left out
AfterSetSkipNew(d, new, okw, none, nrules, mode, orph) ==
    IF new THEN "sets"
    ELSE IF none /\ NoneUnchecked(d) THEN "crashed"
    ELSE IF nrules > 0 THEN "rules"
    ELSE AfterRules(d, new, mode, orph)

\* variant: the rules of a Set that could not be created are processed
AfterSetGoOn(d, new, okw, none, nrules, mode, orph) ==
    IF none /\ NoneUnchecked(d) THEN "crashed"
    ELSE IF nrules > 0 THEN "rules"
    ELSE AfterRules(d, new, mode, orph)

\* variant: a Set that could not be created or updated raises
AfterSetRaise(d, new, okw, none, nrules, mode, orph) ==
    IF ~okw \/ (none /\ NoneUnchecked(d)) THEN "crashed"
    ELSE IF nrules > 0 THEN "rules"
    ELSE AfterRules(d, new, mode, orph)

\* after the Set's own create / update and the read of its rules:
\* a Set that could not be created is left, a missing rules key raises
AfterSet(d, new, okw, none, nrules, mode, orph) ==
    IF new /\ ~okw THEN "sets"
    ELSE IF none /\ NoneUnchecked(d) THEN "crashed"
    ELSE IF nrules > 0 THEN "rules"
    ELSE AfterRules(d, new, mode, orph)

\* the live Stacks / Sets the cleanup loops delete
StackDeleteTargets(d) ==
    SelectSeq(OrderedNames(StackOrder, DOMAIN stack_name_config),
              LAMBDA n : /\ n \notin DesiredStackNames
                         /\ (d = PATH \/ ~IsTrue(Get(stack_name_config[n], "default_policysetstack"))))
\* variant: every Set of the snapshot is a delete target, desired or not
SetDeleteTargetsAll(d) == OrderedNames(SetOrder(d), DOMAIN set_name_config)

SetDeleteTargets(d) ==
    SelectSeq(OrderedNames(SetOrder(d), DOMAIN set_name_config),
              LAMBDA n : /\ n \notin DesiredSetNames
                         /\ (d = PATH \/ ~IsTrue(Get(set_name_config[n], "defaultrule_policyset"))))

(***************************************************************************)
(* push_policy_<domain>, first statement: the desired Sets are extracted.  *)
(***************************************************************************)
ExtractSets ==
    /\ pc = "begin"
    /\ pc' = IF DesiredSets.none /\ NoneUnchecked(policytype) THEN "crashed" ELSE "sets"
    /\ si' = 1
    /\ UNCHANGED << inputVars, diffVars, visited, storeVars, catalogVars, fresh_id_map, local_id_name,
                    setVars, ki, dq, calls, failures, budget, run >>

(***************************************************************************)
(* One iteration of the loop over the desired Sets, up to its rule loop:   *)
(* the Set is updated or created and its live rules are read.              *)
(***************************************************************************)
\* variant: the rule list stays in set_yaml
PreSetYamlKeepRules(d, body, new) ==
    IF d \in {NAT, PERFORMANCE} \/ (d = SECURITY /\ new)
    THEN [k \in (DOMAIN body) \cup OrderKeySet(d) \cup {"clone_from"} |->
            IF k \in OrderKeySet(d) \cup {"clone_from"} THEN Null ELSE body[k]]
    ELSE body

\* set_yaml as the branch sends it
PreSetYaml(d, body, new) ==
    LET norules == Del(body, RulesKey(d))
        wiped == [k \in (DOMAIN norules) \cup OrderKeySet(d) \cup {"clone_from"} |->
                    IF k \in OrderKeySet(d) \cup {"clone_from"} THEN Null ELSE norules[k]]
    IN  IF d \in {NAT, PERFORMANCE} \/ (d = SECURITY /\ new) THEN wiped ELSE norules

\* dst_order, src_order / rule_order / policyrule_order as saved by the branch
SavedOrders(d, body, new) ==
    IF d = NAT THEN [k \in OrderKeySet(d) |-> IF k \in DOMAIN body THEN body[k] ELSE List(<< >>)]
    ELSE IF d = PERFORMANCE THEN [k \in OrderKeySet(d) |-> Get(body, k)]
    ELSE IF d = SECURITY /\ new
         THEN \* read again after set_yaml["policyrule_order"] = None
              [k \in OrderKeySet(d) |-> Null]
    ELSE EmptyObj

\* the payload of the PUT of an existing Set (path, qos, nat, performance)
SetUpdateData(d, yaml, ctrl) ==
    LET data == update_payload(yaml, ctrl)
    IN  IF d = NAT THEN FunRemove(data, OrderKeySet(d))
        ELSE IF d = PERFORMANCE /\ IsTrue(Get(data, "defaultrule_policyset"))
             THEN FunRemove(data, OrderKeySet(d))
        ELSE data

\* the call the Set branch makes for the document entry body: a Create for a
\* Set that is not in the catalog, an Update when the differ reports a
\* change (the security branch updates after the rules), else none
SetWriteOp(d, body, new, ctrl) ==
    IF new THEN "post"
    ELSE IF d # SECURITY /\ compareconf(PreSetYaml(d, body, new), ctrl) # << >> THEN "put"
    ELSE "none"
\* the payload of that call
SetWriteData(d, body, new, ctrl) ==
    IF SetWriteOp(d, body, new, ctrl) = "put"
    THEN SetUpdateData(d, PreSetYaml(d, body, new), ctrl)
    ELSE PreSetYaml(d, body, new)

OrphanNames(ctrl, rules) ==
    OrderedNames(RuleOrder, (DOMAIN ctrl) \ RuleNamesOf(rules))

SetStep ==
    /\ pc = "sets"
    /\ si <= Len(DesiredSets.items)
    /\ \E d \in { (policytype) } :
       \E entry \in { (DesiredSets.items[si]) } :
       \E name \in { (entry.name) } :
       \E new \in { (name \notin DOMAIN set_name_config) } :
       \E yaml \in { (PreSetYaml(d, entry.body, new)) } :
       \E rl \in { (IF d \in {NAT, PERFORMANCE}
                 THEN [none |-> FALSE, items |-> rawrules(d, entry)]
                 ELSE extractrules(d, entry)) } :
       \E ctrl \in { (IF new THEN EmptyObj ELSE set_name_config[name]) } :
       \E op \in { (SetWriteOp(d, entry.body, new, ctrl)) } :
       \E data \in { (SetWriteData(d, entry.body, new, ctrl)) } :
       \E sid \in { (IF new THEN NewId(nextId) ELSE IdOf(ctrl)) } :
       \E liveNames \in { ({ NameOf(liveSets[i]) : i \in DOMAIN liveSets }) } :
       \E mustFail \in { (IF op = "post" THEN ~NameFree(yaml, liveNames)
                       ELSE op = "put" /\ sid \notin DOMAIN liveSets) } :
           \E okw \in (IF op = "none" THEN {TRUE} ELSE Outcomes(mustFail)),
              synth \in (IF op = "post" THEN SynthChoices(d, yaml) ELSE { {} }) :
           \E created \in { (op = "post" /\ okw) } :
           \E getMade \in { (IF ~new THEN TRUE
                          ELSE /\ okw
                               /\ d # PATH
                               /\ (d = QOS => Truthy(Get(yaml, "template")))) } :
           \E useSynth \in { (IF created THEN synth ELSE {}) } :
           \E sets1 \in { (IF created THEN FunUnion([i \in {sid} |-> StoreCreated(yaml, sid)], liveSets)
                        ELSE IF op = "put" /\ okw THEN StoreUpdate(liveSets, sid, data)
                        ELSE liveSets) } :
           \E rules1 \in { (FunUnion(SynthRules(d, sid, useSynth), liveRules)) } :
           \E spentW \in { (IF ~okw /\ ~mustFail THEN 1 ELSE 0) } :
               \E okg \in (IF getMade /\ budget - spentW > 0 THEN {TRUE, FALSE} ELSE {TRUE}) :
               \E ctrl1 \in { (IF getMade /\ okg THEN RulesOfSet(rules1, sid)
                            ELSE [x \in {} |-> EmptyObj]) } :
               \E mode \in { (IF ~new THEN "compare"
                           ELSE IF d = PATH THEN "create"
                           ELSE IF d = QOS THEN (IF getMade THEN "compare" ELSE "create")
                           ELSE IF d = SECURITY THEN "force"
                           ELSE "compare") } :
               \E orph \in { (IF mode = "compare" THEN OrphanNames(ctrl1, rl.items) ELSE << >>) } :
               \E log1 \in { (IF op = "none" THEN calls
                           ELSE Append(calls, Call(op, "set", IF new THEN "" ELSE sid, "", data, okw))) } :
               \E log2 \in { (IF getMade THEN Append(log1, Call("get", "rules", "", sid, EmptyObj, okg))
                           ELSE log1) } :
               \E nfail \in { (NFalse(<< okw, okg >>)) } :
               \E spent \in { (spentW + (IF ~okg THEN 1 ELSE 0)) } :
               \E tracked \in { (d \in {NAT, PERFORMANCE} /\ (~new \/ okw)) } :
                   /\ liveSets' = sets1
                   /\ liveRules' = rules1
                   /\ nextId' = IF op = "post" /\ okw THEN nextId + 1 ELSE nextId
                   /\ set_name_config' = IF op = "put"
                                         THEN [set_name_config EXCEPT ![name] = data]
                                         ELSE set_name_config
                   /\ set_name_id' = IF created /\ d \in {PATH, QOS, SECURITY}
                                     THEN FunUnion([n \in {name} |-> sid], set_name_id)
                                     ELSE set_name_id
                   /\ set_id_name' = IF created /\ d \in {PATH, QOS, SECURITY}
                                     THEN FunUnion([i \in {sid} |-> name], set_id_name)
                                     ELSE set_id_name
                   /\ fresh_id_map' = IF tracked THEN FunUnion([n \in {name} |-> sid], fresh_id_map)
                                      ELSE fresh_id_map
                   /\ local_id_name' = IF tracked THEN FunUnion([i \in {sid} |-> name], local_id_name)
                                       ELSE local_id_name
                   /\ calls' = log2
                   /\ failures' = failures + nfail
                   /\ budget' = budget - spent
                   /\ si' = si + 1
                   /\ visited' = visited \cup { << "set", "", name >> }
                   /\ cur' = name
                   /\ set_yaml' = yaml
                   /\ set_id' = sid
                   /\ isNew' = new
                   /\ rules_yaml' = rl.items
                   /\ rules_ctrl' = ctrl1
                   /\ rule_mode' = mode
                   /\ ri' = 1
                   /\ rule_ids' = EmptyMap
                   /\ orders' = SavedOrders(d, entry.body, new)
                   /\ orphans' = orph
                   /\ pc' = AfterSet(d, new, okw, rl.none, Len(rl.items), mode, orph)
    /\ UNCHANGED << inputVars, diffVars, liveStacks, stack_name_config, rule_name_id,
                    ki, dq, run >>


(***************************************************************************)
(* translate_rule(rule, rule_type, action=N2ID) on the fields carried by   *)
(* the model, update_rule, and the threshold-profile mapping of            *)
(* push_policy_performance.                                                *)
(***************************************************************************)
\* app_def_ids: a name without an entry is appended unchanged
TranslateApps(names) ==
    [n \in 1..Len(names) |->
        IF names[n] \in DOMAIN app_name_id THEN app_name_id[names[n]] ELSE names[n]]

\* paths_allowed[<list>]: None (or a missing key) comes back as the empty list
TranslatePaths(v) ==
    Map({ << k, IF k \in SubKeys(v) /\ SubGet(v, k) # "null" THEN SubGet(v, k) ELSE "[]" >> :
            k \in SeqToSet(SubKeyOrder) })

\* a scalar reference: replaced when the name has an entry, else left
TranslateScalar(rule, key, name_id) ==
    LET v == Get(rule, key)
    IN  IF v.t = "str" /\ v.s \in DOMAIN name_id THEN Put(rule, key, Str(name_id[v.s]))
        ELSE rule

\* security zone / prefix lists: a name without an entry is not appended
TranslateZones(rule, key, name_id) ==
    LET v == Get(rule, key)
        kept == SelectSeq(v.l, LAMBDA z : z \in DOMAIN name_id)
    IN  IF v.t = "list" THEN Put(rule, key, List([n \in 1..Len(kept) |-> name_id[kept[n]]]))
        ELSE rule

\* the NAT actions loop: NATACTIONS_name_enum[nataction["type"]] raises on a
\* type it does not hold, after the pool of that action has been replaced
\* in place; the actions after it are not reached
FirstBadAction(acts) ==
    LET bad == { n \in 1..Len(acts) : ActionType(acts[n]) \notin DOMAIN NATACTIONS_name_enum }
    IN  IF bad = {} THEN Len(acts) + 1 ELSE CHOOSE n \in bad : \A m \in bad : n <= m
TranslateActions(acts) ==
    [n \in 1..Len(acts) |->
        LET pool == IF ActionPool(acts[n]) \in DOMAIN natpool_name_id
                    THEN natpool_name_id[ActionPool(acts[n])] ELSE ActionPool(acts[n])
        IN  IF n < FirstBadAction(acts)
            THEN Action(NATACTIONS_name_enum[ActionType(acts[n])], pool)
            ELSE IF n = FirstBadAction(acts) THEN Action(ActionType(acts[n]), pool)
            ELSE acts[n]]

\* translate_rule raises: "for nataction in natactions" over None, or a type
\* that NATACTIONS_name_enum does not hold
TranslateRaises(d, rule) ==
    /\ d = NAT
    /\ LET a == Get(rule, "actions")
       IN  a.t # "list" \/ FirstBadAction(a.l) <= Len(a.l)

\* the fields of a rule as the branches of translate_rule rewrite them
TranslateAppsField(rule) ==
    IF Get(rule, "app_def_ids").t = "list"
    THEN Put(rule, "app_def_ids", List(TranslateApps(rule["app_def_ids"].l)))
    ELSE rule
TranslatePathsField(rule) ==
    Put(Put(rule, "service_context", Get(rule, "service_context")),
        "paths_allowed", IF Get(rule, "paths_allowed").t = "map"
                         THEN TranslatePaths(rule["paths_allowed"])
                         ELSE Get(rule, "paths_allowed"))
TranslateActionsField(rule) ==
    IF Get(rule, "actions").t = "list"
    THEN Put(rule, "actions", List(TranslateActions(rule["actions"].l)))
    ELSE rule

\* the rule dict as translate_rule leaves it, by return or by raise (the
\* dict is changed in place; push_policy_nat catches the raise and goes on);
\* there is no branch for the performance rule type
translate_rule(d, rule) ==
    CASE d = PATH ->
            TranslatePathsField(TranslateAppsField(
                TranslateScalar(rule, "network_context_id", nwcontext_name_id)))
      [] d = QOS ->
            TranslateAppsField(TranslateScalar(rule, "network_context_id", nwcontext_name_id))
      [] d = SECURITY ->
            TranslateAppsField(TranslateZones(rule, "source_zone_ids", seczone_name_id))
      [] d = NAT ->
            TranslateActionsField(TranslateScalar(rule, "source_zone_id", natzone_name_id))
      [] OTHER -> rule

\* push_policy_performance: tp_name in perf_threshold_name_id
MapThreshold(rule) ==
    LET tp == Get(rule, "thresholdprofile_id")
    IN  IF Truthy(tp) /\ tp.t = "str" /\ tp.s \in DOMAIN perf_threshold_name_id
        THEN Put(rule, "thresholdprofile_id", Str(perf_threshold_name_id[tp.s]))
        ELSE rule

\* update_rule: an empty list under paths_allowed becomes None
update_rule(rule) ==
    LET pa == rule["paths_allowed"]
    IN  Put(rule, "paths_allowed",
            Map({ << p[1], IF p[2] = "[]" THEN "null" ELSE p[2] >> : p \in pa.m }))

\* the rule as the loop compares and sends it
RuleData(d, body) ==
    IF d = PATH THEN update_rule(translate_rule(d, body))
    ELSE IF d = PERFORMANCE THEN translate_rule(d, MapThreshold(body))
    ELSE translate_rule(d, body)

\* update_rule raises when the rule has no paths_allowed dict
RuleRaises(d, body) == d = PATH /\ Get(translate_rule(d, body), "paths_allowed").t # "map"

\* variant: the id is recorded whatever the call returned
RecordedAlways(op, ok) == TRUE
\* <x>_rule_name_id[rulename] is set for an unchanged rule (no call) and
\* under "if resp_rule.cgx_status"
Recorded(op, ok) == op = "none" \/ ok

\* the branch keeps a rule name -> id map
TracksRuleIds(d, new) == d \in {NAT, PERFORMANCE} \/ (d = SECURITY /\ new)

(***************************************************************************)
(* One iteration of the loop over the desired rules of the current Set.    *)
(***************************************************************************)
RuleStep ==
    /\ pc = "rules"
    /\ ri <= Len(rules_yaml)
    /\ \E d \in { (policytype) } :
       \E name \in { (rules_yaml[ri].name) } :
       \E body \in { (rules_yaml[ri].body) } :
       \E raises \in { (RuleRaises(d, body)) } :
       \E rule_data \in { (IF raises THEN body ELSE RuleData(d, body)) } :
       \E exists \in { (rule_mode # "create" /\ name \in DOMAIN rules_ctrl) } :
       \E ctrl \in { (IF exists THEN rules_ctrl[name] ELSE EmptyObj) } :
       \E delta \in { (IF exists /\ rule_mode = "compare" THEN compareconf(rule_data, ctrl) ELSE << >>) } :
       \E op \in { (IF raises THEN "none"
                 ELSE IF ~exists THEN "post"
                 ELSE IF rule_mode = "force" \/ delta # << >> THEN "put"
                 ELSE "none") } :
       \E data \in { (IF op = "put" THEN update_payload(rule_data, ctrl) ELSE rule_data) } :
       \E rid \in { (IF op = "put" THEN IdOf(data)
                  ELSE IF op = "post" THEN NewId(nextId)
                  ELSE IF exists THEN IdOf(ctrl) ELSE "") } :
       \E taken \in { (DOMAIN RulesOfSet(liveRules, set_id)) } :
       \E mustFail \in { (IF op = "post" THEN ~NameFree(rule_data, taken)
                       ELSE op = "put" /\ rid \notin DOMAIN liveRules) } :
       \E track \in { (TracksRuleIds(d, isNew)) } :
           \E ok \in (IF op = "none" THEN {TRUE} ELSE Outcomes(mustFail)) :
           /\ liveRules' =
                 IF op = "post" /\ ok
                 THEN FunUnion([i \in {rid} |-> [set |-> set_id, obj |-> StoreCreated(rule_data, rid)]],
                               liveRules)
                 ELSE IF op = "put" /\ ok THEN StoreUpdateRule(liveRules, rid, data)
                 ELSE liveRules
           /\ nextId' = IF op = "post" /\ ok THEN nextId + 1 ELSE nextId
           /\ rules_ctrl' = IF op = "put" THEN [rules_ctrl EXCEPT ![name] = data] ELSE rules_ctrl
           /\ rule_ids' =
                 IF raises \/ ~track THEN rule_ids
                 ELSE IF Recorded(op, ok) THEN FunUnion([n \in {name} |-> rid], rule_ids)
                 ELSE rule_ids
           /\ calls' = IF op = "none" THEN calls
                       ELSE Append(calls, Call(op, "rule", IF op = "put" THEN rid ELSE "",
                                               set_id, data, ok))
           /\ failures' = failures + (IF ok THEN 0 ELSE 1)
           /\ budget' = budget - (IF ~ok /\ ~mustFail THEN 1 ELSE 0)
           /\ ri' = ri + 1
           /\ visited' = IF raises THEN visited
                         ELSE visited \cup { << "rule", cur, name >> }
           /\ pc' = IF raises THEN "crashed"
                    ELSE IF ri + 1 <= Len(rules_yaml) THEN "rules"
                    ELSE AfterRules(d, isNew, rule_mode, orphans)
    /\ UNCHANGED << inputVars, diffVars, liveSets, liveStacks, catalogVars, fresh_id_map,
                    local_id_name, si, cur, set_yaml, set_id, isNew, rules_yaml,
                    rule_mode, orders, orphans, ki, dq, run >>


(***************************************************************************)
(* "Finalize Rule Order": the narrow Set update that carries the order     *)
(* field(s) resolved through the rule name -> id map of this run.          *)
(***************************************************************************)
\* [ids[r] for r in order if r in ids] if order else []
ValidOrder(order, ids) ==
    IF Truthy(order) /\ order.t = "list"
    THEN LET kept == SelectSeq(order.l, LAMBDA r : r \in DOMAIN ids)
         IN  [n \in 1..Len(kept) |-> ids[kept[n]]]
    ELSE << >>

FinalizeWanted(d, saved, yaml) ==
    IF d = PERFORMANCE
    THEN Truthy(saved["link_health_policyrule_order"])
         /\ ~IsTrue(Get(yaml, "defaultrule_policyset"))
    ELSE \E k \in DOMAIN saved : Truthy(saved[k])

OrderPayload(sid, saved, ids) ==
    [k \in {"id"} \cup DOMAIN saved |->
        IF k = "id" THEN Str(sid) ELSE List(ValidOrder(saved[k], ids))]

FinalizeOrder ==
    /\ pc = "order"
    /\ \E d \in { (policytype) } :
       \E wanted \in { (FinalizeWanted(d, orders, set_yaml)) } :
       \E data \in { (OrderPayload(set_id, orders, rule_ids)) } :
       \E mustFail \in { (set_id \notin DOMAIN liveSets) } :
           \E ok \in (IF wanted THEN Outcomes(mustFail) ELSE {TRUE}) :
           /\ liveSets' = IF wanted /\ ok THEN StoreUpdate(liveSets, set_id, data) ELSE liveSets
           /\ calls' = IF wanted THEN Append(calls, Call("put", "set", set_id, "", data, ok))
                       ELSE calls
           /\ failures' = failures + (IF ok THEN 0 ELSE 1)
           /\ budget' = budget - (IF ~ok /\ ~mustFail THEN 1 ELSE 0)
           /\ pc' = AfterOrder(d, orphans)
    /\ UNCHANGED << inputVars, diffVars, visited, liveRules, liveStacks, nextId, catalogVars, fresh_id_map,
                    local_id_name, si, setVars, ki, dq, run >>

(***************************************************************************)
(* One delete of the loop over the live rules that are not desired.        *)
(***************************************************************************)
RuleDeleteStep ==
    /\ pc = "ruledel"
    /\ orphans # << >>
    /\ \E name \in { (Head(orphans)) } :
       \E rid \in { (IdOf(rules_ctrl[name])) } :
       \E mustFail \in { (rid \notin DOMAIN liveRules) } :
           \E ok \in Outcomes(mustFail) :
           /\ liveRules' = IF ok THEN FunRemove(liveRules, {rid}) ELSE liveRules
           /\ calls' = Append(calls, Call("delete", "rule", rid, set_id, EmptyObj, ok))
           /\ failures' = failures + (IF ok THEN 0 ELSE 1)
           /\ budget' = budget - (IF ~ok /\ ~mustFail THEN 1 ELSE 0)
    /\ orphans' = Tail(orphans)
    /\ pc' = IF Tail(orphans) # << >> THEN "ruledel" ELSE AfterRuleDelete(policytype, isNew)
    /\ UNCHANGED << inputVars, diffVars, visited, liveSets, liveStacks, nextId, catalogVars, fresh_id_map,
                    local_id_name, si, cur, set_yaml, set_id, isNew, rules_yaml,
                    rules_ctrl, rule_mode, ri, rule_ids, orders, ki, dq, run >>

(***************************************************************************)
(* push_policy_security, "Sync Set Attributes" of an existing Set.         *)
(***************************************************************************)
\* translate_set(setdata, setid, set_type, action=N2ID)
translate_set(d, setdata, setid) ==
    IF d \in {NAT, SECURITY}
    THEN [k \in DOMAIN setdata |->
            IF k \in OrderKeySet(d) /\ setdata[k].t = "list"
            THEN LET kept == SelectSeq(setdata[k].l,
                                       LAMBDA rn : << setid, rn >> \in DOMAIN rule_name_id)
                 IN  List([n \in 1..Len(kept) |-> rule_name_id[<< setid, kept[n] >>]])
            ELSE setdata[k]]
    ELSE setdata

\* the payload of the PUT of an existing Security Set
SecuritySetData(yaml, ctrl) ==
    LET data == update_payload(yaml, ctrl)
    IN  IF Truthy(Get(yaml, "defaultrule_policyset"))
        THEN FunRemove(data, {"policyrule_order"})
        ELSE data

SetSync ==
    /\ pc = "sync"
    /\ \E d \in { (policytype) } :
       \E ctrl \in { (set_name_config[cur]) } :
       \E set_data_yaml \in { (Del(translate_set(d, set_yaml, IdOf(ctrl)), RulesKey(d))) } :
       \E delta \in { (compareconf(set_data_yaml, ctrl)) } :
       \E data \in { (SecuritySetData(set_data_yaml, ctrl)) } :
       \E sid \in { (IdOf(data)) } :
       \E mustFail \in { (sid \notin DOMAIN liveSets) } :
           \E ok \in (IF delta # << >> THEN Outcomes(mustFail) ELSE {TRUE}) :
           /\ liveSets' = IF delta # << >> /\ ok THEN StoreUpdate(liveSets, sid, data) ELSE liveSets
           /\ set_name_config' = IF delta # << >>
                                 THEN [set_name_config EXCEPT ![cur] = data]
                                 ELSE set_name_config
           /\ set_yaml' = set_data_yaml
           /\ calls' = IF delta # << >> THEN Append(calls, Call("put", "set", sid, "", data, ok))
                       ELSE calls
           /\ failures' = failures + (IF ok THEN 0 ELSE 1)
           /\ budget' = budget - (IF ~ok /\ ~mustFail THEN 1 ELSE 0)
    /\ pc' = "sets"
    /\ UNCHANGED << inputVars, diffVars, visited, liveRules, liveStacks, nextId, set_name_id, set_id_name,
                    stack_name_config, rule_name_id, fresh_id_map, local_id_name, si,
                    cur, set_id, isNew, rules_yaml, rules_ctrl, rule_mode, ri, rule_ids,
                    orders, orphans, ki, dq, run >>


(***************************************************************************)
(* Stacks: translate_stack, update_stack and the id swaps.                 *)
(***************************************************************************)
\* translate_stack(stack, stack_type, action=N2ID); no branch for performance
translate_stack_in(d, stack, name_id) ==
    IF d = PERFORMANCE THEN stack
    ELSE LET dflt == Get(stack, "defaultrule_policyset_id")
             s1 == IF dflt.t = "str" /\ dflt.s \in DOMAIN name_id
                   THEN Put(stack, "defaultrule_policyset_id", Str(name_id[dflt.s]))
                   ELSE stack
             names == Get(stack, "policyset_ids")
             kept == IF names.t = "list"
                     THEN SelectSeq(names.l, LAMBDA pn : pn \in DOMAIN name_id)
                     ELSE << >>
         IN  Put(s1, "policyset_ids", List([n \in 1..Len(kept) |-> name_id[kept[n]]]))

\* the run of one domain: the branch reads the dictionary of that domain
translate_stack(d, stack) == translate_stack_in(d, stack, set_name_id)

\* update_stack raises when policyset_ids is None
UpdateStackRaises(stack) == Get(stack, "policyset_ids").t # "list"
\* variant: the empty list is left as it is
update_stack_keep(stack) == stack
\* update_stack: an empty policyset_ids becomes None
update_stack(stack) ==
    IF Len(Get(stack, "policyset_ids").l) = 0 THEN Put(stack, "policyset_ids", Null) ELSE stack

\* "Swap Custom Policy Set Lists" of push_policy_nat / _performance
SwapMembers(stack) ==
    LET pids == Get(stack, "policyset_ids")
    IN  IF Truthy(pids) /\ pids.t = "list"
        THEN Put(stack, "policyset_ids",
                 List([n \in 1..Len(pids.l) |->
                        LET item == pids.l[n]
                            item_name == IF item \in DOMAIN local_id_name
                                         THEN local_id_name[item] ELSE item
                        IN  IF item_name \in DOMAIN fresh_id_map
                            THEN fresh_id_map[item_name] ELSE item]))
        ELSE stack

\* stack_data_yaml of the domain for the desired Stack entry
StackDataIn(d, name, stack_yaml, name_id) ==
    IF d \in {PATH, QOS, SECURITY}
    THEN update_stack(translate_stack_in(d,
             Put(stack_yaml, "defaultrule_policyset_id", Str(expected_name(name))), name_id))
    ELSE LET s0 == IF d = PERFORMANCE /\ global_default_name \in DOMAIN fresh_id_map
                   THEN Put(stack_yaml, "defaultrule_policyset_id",
                            Str(fresh_id_map[global_default_name]))
                   ELSE stack_yaml
             s1 == SwapMembers(s0)
             s2 == translate_stack_in(d, s1, name_id)
         IN  \* try: ... except: stack_data_yaml = stack_yaml
             IF UpdateStackRaises(s2) THEN s2 ELSE update_stack(s2)

StackData(d, name, stack_yaml) == StackDataIn(d, name, stack_yaml, set_name_id)

\* variant: the order fields of the last Set are finalized after the Stacks
CleanupOrderLast(d) ==
    IF /\ DOMAIN orders # {}
       /\ FinalizeWanted(d, orders, set_yaml)
    THEN [pc |-> "order", dq |-> << >>]
    ELSE IF StackDeleteTargets(d) # << >>
    THEN [pc |-> "stackdel", dq |-> StackDeleteTargets(d)]
    ELSE IF SetDeleteTargets(d) # << >> THEN [pc |-> "setdel", dq |-> SetDeleteTargets(d)]
    ELSE [pc |-> "return", dq |-> << >>]

\* where the cleanup loops start: the position and the names to visit
Cleanup(d) ==
    IF StackDeleteTargets(d) # << >> THEN [pc |-> "stackdel", dq |-> StackDeleteTargets(d)]
    ELSE IF SetDeleteTargets(d) # << >> THEN [pc |-> "setdel", dq |-> SetDeleteTargets(d)]
    ELSE [pc |-> "return", dq |-> << >>]

ExtractStacks ==
    /\ pc = "sets"
    /\ si > Len(DesiredSets.items)
    /\ \E crash \in { (DesiredStacks.none /\ NoneUnchecked(policytype)) } :
           /\ pc' = IF crash THEN "crashed"
                    ELSE IF Len(DesiredStacks.items) > 0 THEN "stacks"
                    ELSE Cleanup(policytype).pc
           /\ dq' = IF crash \/ Len(DesiredStacks.items) > 0 THEN << >>
                    ELSE Cleanup(policytype).dq
    /\ ki' = 1
    /\ UNCHANGED << inputVars, diffVars, visited, storeVars, catalogVars, fresh_id_map, local_id_name,
                    si, setVars, calls, failures, budget, run >>

StackStep ==
    /\ pc = "stacks"
    /\ ki <= Len(DesiredStacks.items)
    /\ \E d \in { (policytype) } :
       \E entry \in { (DesiredStacks.items[ki]) } :
       \E name \in { (entry.name) } :
       \E stack_data_yaml \in { (StackData(d, name, entry.body)) } :
       \E exists \in { (name \in DOMAIN stack_name_config) } :
       \E ctrl \in { (IF exists THEN stack_name_config[name] ELSE EmptyObj) } :
       \E delta \in { (IF exists THEN compareconf(stack_data_yaml, ctrl) ELSE << >>) } :
       \E op \in { (IF ~exists THEN "post" ELSE IF delta # << >> THEN "put" ELSE "none") } :
       \E data \in { (IF op = "put" THEN update_payload(stack_data_yaml, ctrl) ELSE stack_data_yaml) } :
       \E kid \in { (IF op = "post" THEN NewId(nextId) ELSE IdOf(ctrl)) } :
       \E liveNames \in { ({ NameOf(liveStacks[i]) : i \in DOMAIN liveStacks }) } :
       \E mustFail \in { (IF op = "post" THEN ~NameFree(data, liveNames)
                       ELSE op = "put" /\ kid \notin DOMAIN liveStacks) } :
           \E ok \in (IF op = "none" THEN {TRUE} ELSE Outcomes(mustFail)) :
           /\ liveStacks' =
                 IF op = "post" /\ ok
                 THEN FunUnion([i \in {kid} |-> StoreCreated(data, kid)], liveStacks)
                 ELSE IF op = "put" /\ ok THEN StoreUpdate(liveStacks, kid, data)
                 ELSE liveStacks
           /\ nextId' = IF op = "post" /\ ok THEN nextId + 1 ELSE nextId
           /\ stack_name_config' = IF op = "put"
                                   THEN [stack_name_config EXCEPT ![name] = data]
                                   ELSE stack_name_config
           /\ calls' = IF op = "none" THEN calls
                       ELSE Append(calls, Call(op, "stack", IF op = "put" THEN kid ELSE "",
                                               "", data, ok))
           /\ failures' = failures + (IF ok THEN 0 ELSE 1)
           /\ budget' = budget - (IF ~ok /\ ~mustFail THEN 1 ELSE 0)
    /\ ki' = ki + 1
    /\ visited' = visited \cup { << "stack", "", DesiredStacks.items[ki].name >> }
    /\ pc' = IF ki + 1 <= Len(DesiredStacks.items) THEN "stacks" ELSE Cleanup(policytype).pc
    /\ dq' = IF ki + 1 <= Len(DesiredStacks.items) THEN << >> ELSE Cleanup(policytype).dq
    /\ UNCHANGED << inputVars, diffVars, liveSets, liveRules, set_name_config, set_name_id,
                    set_id_name, rule_name_id, fresh_id_map, local_id_name, si, setVars, run >>

(***************************************************************************)
(* Cleanup: one delete of the loop over the live Stacks, then over the     *)
(* live Sets, that the desired document does not name.                     *)
(***************************************************************************)
StackDeleteStep ==
    /\ pc = "stackdel"
    /\ dq # << >>
    /\ \E name \in { (Head(dq)) } :
       \E kid \in { (IdOf(stack_name_config[name])) } :
       \E mustFail \in { (\/ kid \notin DOMAIN liveStacks
                       \/ IsTrue(Get(liveStacks[kid], "default_policysetstack"))) } :
           \E ok \in Outcomes(mustFail) :
           /\ liveStacks' = IF ok THEN FunRemove(liveStacks, {kid}) ELSE liveStacks
           /\ calls' = Append(calls, Call("delete", "stack", kid, "", EmptyObj, ok))
           /\ failures' = failures + (IF ok THEN 0 ELSE 1)
           /\ budget' = budget - (IF ~ok /\ ~mustFail THEN 1 ELSE 0)
    /\ pc' = IF Tail(dq) # << >> THEN "stackdel"
             ELSE IF SetDeleteTargets(policytype) # << >> THEN "setdel" ELSE "return"
    /\ dq' = IF Tail(dq) # << >> THEN Tail(dq) ELSE SetDeleteTargets(policytype)
    /\ UNCHANGED << inputVars, diffVars, visited, liveSets, liveRules, nextId, catalogVars, fresh_id_map,
                    local_id_name, si, setVars, ki, run >>

\* variant: the Stack delete loop runs again after the Set delete loop
AfterSetDeleteThenStacks(d, rest) ==
    IF rest # << >> THEN [pc |-> "setdel", dq |-> rest]
    ELSE IF StackDeleteTargets(d) # << >>
    THEN [pc |-> "stackdel", dq |-> StackDeleteTargets(d)]
    ELSE [pc |-> "return", dq |-> << >>]

\* variant: the Set delete loop does not leave after the last name
AfterSetDeleteStay(d, rest) == [pc |-> "setdel", dq |-> rest]

\* the Set delete loop goes on with the names left, and the function returns
\* after the last one
AfterSetDelete(d, rest) ==
    IF rest # << >> THEN [pc |-> "setdel", dq |-> rest]
    ELSE [pc |-> "return", dq |-> << >>]

SetDeleteStep ==
    /\ pc = "setdel"
    /\ dq # << >>
    /\ \E name \in { (Head(dq)) } :
       \E sid \in { (IdOf(set_name_config[name])) } :
       \E mustFail \in { (\/ sid \notin DOMAIN liveSets
                       \/ IsTrue(Get(liveSets[sid], "defaultrule_policyset"))) } :
           \E ok \in Outcomes(mustFail) :
           /\ liveSets' = IF ok THEN FunRemove(liveSets, {sid}) ELSE liveSets
           /\ liveRules' = IF ok THEN FunRemove(liveRules, { i \in DOMAIN liveRules :
                                                               liveRules[i].set = sid })
                           ELSE liveRules
           /\ calls' = Append(calls, Call("delete", "set", sid, "", EmptyObj, ok))
           /\ failures' = failures + (IF ok THEN 0 ELSE 1)
           /\ budget' = budget - (IF ~ok /\ ~mustFail THEN 1 ELSE 0)
    /\ pc' = AfterSetDelete(policytype, Tail(dq)).pc
    /\ dq' = AfterSetDelete(policytype, Tail(dq)).dq
    /\ UNCHANGED << inputVars, diffVars, visited, liveStacks, nextId, catalogVars, fresh_id_map,
                    local_id_name, si, setVars, ki, run >>

\* push_policy_<domain> returns
Return ==
    /\ pc = "return"
    /\ pc' = "done"
    /\ UNCHANGED << inputVars, diffVars, visited, storeVars, catalogVars, fresh_id_map, local_id_name,
                    si, setVars, ki, dq, calls, failures, budget, run >>

(***************************************************************************)
(* The tool is started again with the same document: a new process loads   *)
(* the catalog from the store as the first run left it.                    *)
(***************************************************************************)
Rerun ==
    /\ pc = "done"
    /\ run < MaxRuns
    /\ run' = run + 1
    /\ LET c == LoadCatalog(selection, policytype, liveSets, liveRules, liveStacks)
       IN  /\ set_name_config' = c.set_name_config
           /\ stack_name_config' = c.stack_name_config
           /\ set_name_id' = c.set_name_id
           /\ set_id_name' = c.set_id_name
           /\ rule_name_id' = c.rule_name_id
    /\ pc' = "begin"
    /\ si' = 1
    /\ cur' = ""
    /\ set_yaml' = EmptyObj
    /\ set_id' = ""
    /\ isNew' = FALSE
    /\ rules_yaml' = << >>
    /\ rules_ctrl' = [x \in {} |-> EmptyObj]
    /\ rule_mode' = "create"
    /\ ri' = 1
    /\ rule_ids' = EmptyMap
    /\ orders' = EmptyObj
    /\ orphans' = << >>
    /\ ki' = 1
    /\ dq' = << >>
    /\ fresh_id_map' = EmptyMap
    /\ local_id_name' = EmptyMap
    /\ UNCHANGED << inputVars, diffVars, visited, storeVars, calls, failures, budget >>

Next ==
    \/ ExtractSets
    \/ SetStep
    \/ RuleStep
    \/ FinalizeOrder
    \/ RuleDeleteStep
    \/ SetSync
    \/ ExtractStacks
    \/ StackStep
    \/ StackDeleteStep
    \/ SetDeleteStep
    \/ Return

Spec == Init /\ [][Next]_vars

\* the tool run MaxRuns times while every remote call succeeds
InitTwice == InitWith(0)
NextTwice == Next \/ Rerun
SpecTwice == InitTwice /\ [][NextTwice]_vars


(***************************************************************************)
(* compareconf on its own: the differ applied to attribute maps drawn from *)
(* a bounded universe (scalars, lists and nested maps of up to MaxLen      *)
(* elements), first to a map and itself, then to the map and an edited     *)
(* copy.                                                                   *)
(***************************************************************************)
DiffTokens == {"a", "b"}
DiffScalars == { Null, Str("a"), Str("b") }
DiffLists == { List(q) : q \in UNION { [1..n -> DiffTokens] : n \in 0..MaxLen } }
DiffMaps ==
    { Map({ << k, f[k] >> : k \in DOMAIN f }) :
        f \in UNION { [K -> {"[x]", "null"}] :
                        K \in { S \in SUBSET SeqToSet(SubKeyOrder) : Cardinality(S) <= MaxLen } } }
DiffValues == DiffScalars \cup DiffLists \cup DiffMaps
DiffKeyNames == {"description", "paths_allowed"}
DiffConfs == UNION { [K -> DiffValues] : K \in SUBSET DiffKeyNames }

InitDiff ==
    /\ origconf \in DiffConfs
    /\ curconf = origconf
    /\ confdelta = << >>
    /\ pc = "compare"
    /\ policytype = PATH
    /\ selection = PATH
    /\ dryrun = FALSE
    /\ dicts = NoDicts
    /\ loaded_config = [ sets |-> Section(FALSE, << >>), stacks |-> Section(FALSE, << >>) ]
    /\ liveSets = [i \in {} |-> EmptyObj]
    /\ liveRules = [i \in {} |-> [set |-> "", obj |-> EmptyObj]]
    /\ liveStacks = [i \in {} |-> EmptyObj]
    /\ nextId = 0
    /\ set_name_config = [i \in {} |-> EmptyObj]
    /\ stack_name_config = [i \in {} |-> EmptyObj]
    /\ set_name_id = EmptyMap
    /\ set_id_name = EmptyMap
    /\ rule_name_id = EmptyMap
    /\ si = 1
    /\ cur = ""
    /\ set_yaml = EmptyObj
    /\ set_id = ""
    /\ isNew = FALSE
    /\ rules_yaml = << >>
    /\ rules_ctrl = [x \in {} |-> EmptyObj]
    /\ rule_mode = "create"
    /\ ri = 1
    /\ rule_ids = EmptyMap
    /\ orders = EmptyObj
    /\ orphans = << >>
    /\ ki = 1
    /\ dq = << >>
    /\ fresh_id_map = EmptyMap
    /\ local_id_name = EmptyMap
    /\ calls = << >>
    /\ failures = 0
    /\ budget = 0
    /\ run = 1
    /\ visited = {}

mainVars == << inputVars, storeVars, catalogVars, fresh_id_map, local_id_name, si,
               setVars, ki, dq, calls, failures, budget, run, visited >>

\* confdelta = compareconf(origconf, curconf)
Compare ==
    /\ pc = "compare"
    /\ confdelta' = compareconf(origconf, curconf)
    /\ pc' = "compared"
    /\ UNCHANGED << mainVars, origconf, curconf >>

\* one key of the second map is set to another value, or removed
Edit ==
    /\ pc = "compared"
    /\ curconf = origconf
    /\ \E k \in DiffKeyNames :
          \/ \E v \in DiffValues : v # Get(origconf, k) /\ curconf' = Put(curconf, k, v)
          \/ k \in DOMAIN curconf /\ curconf' = Del(curconf, k)
    /\ pc' = "compare"
    /\ UNCHANGED << mainVars, origconf, confdelta >>

NextDiff == Compare \/ Edit

SpecDiff == InitDiff /\ [][NextDiff]_vars


(***************************************************************************)
(* The translation of one desired Rule on its own: the rule loop's         *)
(* rule_data for a rule body whose reference fields are drawn from names   *)
(* with and without a catalog entry.                                       *)
(***************************************************************************)
Unknown == "Nowhere"
RefNames(name_id) == (DOMAIN name_id) \cup {Unknown}
RefScalars(names) == { Str(x) : x \in names }
RefLists(names) == { List(q) : q \in UNION { [1..n -> names] : n \in 0..MaxLen } }
DocActions == { Action(t, p) : t \in {"Source NAT", "source_nat_dynamic"}, p \in {"Pool1", "PoolX"} }

\* the catalog map that translates the reference field key of a rule of domain d
RefCatalog(d) ==
    CASE d \in {PATH, QOS} ->
            [k \in {"network_context_id", "app_def_ids"} |->
                IF k = "app_def_ids" THEN app_name_id ELSE nwcontext_name_id]
      [] d = SECURITY ->
            [k \in {"source_zone_ids", "app_def_ids"} |->
                IF k = "app_def_ids" THEN app_name_id ELSE seczone_name_id]
      [] d = NAT -> [k \in {"source_zone_id"} |-> natzone_name_id]
      [] OTHER -> [k \in {"thresholdprofile_id"} |-> perf_threshold_name_id]
ListRefKeys == {"app_def_ids", "source_zone_ids"}

\* the values a desired rule may carry under key
RefChoices(d, key) ==
    IF key = "actions" THEN RefLists(DocActions)
    ELSE IF key \in ListRefKeys THEN RefLists(RefNames(RefCatalog(d)[key]))
    ELSE RefScalars(RefNames(RefCatalog(d)[key]))
RefKeysOf(d) == (DOMAIN RefCatalog(d)) \cup (IF d = NAT THEN {"actions"} ELSE {})

RuleBase(d) ==
    IF d = PATH
    THEN [k \in {"name", "paths_allowed"} |->
            IF k = "name" THEN Str("R1")
            ELSE Map({ <<"active_paths", "[x]">>, <<"backup_paths", "[]">>,
                       <<"l3_failure_paths", "null">> })]
    ELSE [k \in {"name"} |-> Str("R1")]

RuleInputs(d) ==
    UNION { { update_payload(f, RuleBase(d)) :
                f \in { g \in [K -> UNION { RefChoices(d, k) : k \in K }] :
                           \A k \in K : g[k] \in RefChoices(d, k) } } :
            K \in SUBSET RefKeysOf(d) }

IdleRun ==
    /\ loaded_config = [ sets |-> Section(FALSE, << >>), stacks |-> Section(FALSE, << >>) ]
    /\ liveSets = [i \in {} |-> EmptyObj]
    /\ liveRules = [i \in {} |-> [set |-> "", obj |-> EmptyObj]]
    /\ liveStacks = [i \in {} |-> EmptyObj]
    /\ nextId = 0
    /\ set_name_config = [i \in {} |-> EmptyObj]
    /\ stack_name_config = [i \in {} |-> EmptyObj]
    /\ set_name_id = EmptyMap
    /\ set_id_name = EmptyMap
    /\ rule_name_id = EmptyMap
    /\ si = 1
    /\ cur = ""
    /\ set_yaml = EmptyObj
    /\ set_id = ""
    /\ isNew = FALSE
    /\ rules_yaml = << >>
    /\ rules_ctrl = [x \in {} |-> EmptyObj]
    /\ rule_mode = "create"
    /\ ri = 1
    /\ rule_ids = EmptyMap
    /\ orders = EmptyObj
    /\ orphans = << >>
    /\ ki = 1
    /\ dq = << >>
    /\ fresh_id_map = EmptyMap
    /\ local_id_name = EmptyMap
    /\ calls = << >>
    /\ failures = 0
    /\ budget = 0
    /\ run = 1
    /\ visited = {}

InitRule ==
    /\ policytype \in Domains
    /\ selection = policytype
    /\ dryrun = FALSE
    /\ dicts = NoDicts
    /\ origconf \in RuleInputs(policytype)
    /\ curconf = origconf
    /\ confdelta = << >>
    /\ pc = "translate"
    /\ IdleRun

\* rule_data as the rule loop of the domain compares and sends it
TranslateRule ==
    /\ pc = "translate"
    /\ curconf' = RuleData(policytype, origconf)
    /\ pc' = "translated"
    /\ UNCHANGED << mainVars, origconf, confdelta >>

NextRule == TranslateRule

SpecRule == InitRule /\ [][NextRule]_vars

(***************************************************************************)
(* The integrated restore tool (push_policy_refactored.py): its            *)
(* push_policy_performance with the --dryrun switch.  The document lists   *)
(* the Sets under performance_sets, each with its rules under "rules".     *)
(***************************************************************************)
DELETE_KEYS == {"_created_on_utc", "_debug", "_error", "_etag", "_info", "_schema",
                "_updated_on_utc", "_warning", "_request_id", "_content_length",
                "_status_code", "id"}
cleandata(data) == [k \in (DOMAIN data) \ DELETE_KEYS |-> data[k]]

\* one entry of performance_sets: {set_name: set_data}
DrySetEntry(name, named, hasRules, rulenames) ==
    [name |-> name,
     body |-> [k \in {"description"} \cup (IF named THEN {"name"} ELSE {})
                     \cup (IF hasRules THEN {"rules"} ELSE {}) |->
                 CASE k = "description" -> Str("d1")
                   [] k = "name" -> Str(name)
                   [] OTHER -> RulesMarker],
     rules |-> IF hasRules THEN DocRules(PERFORMANCE, rulenames) ELSE << >>]

\* variant: the calls are made whatever the switch says
DryIgnored(dry) == TRUE
\* "if dryrun: print(...) else: cgx_session.<put|post>..."
Sends(dry) == ~dry

\* the tool prints nothing about the calls it makes
DryCall(op, kind, id, setid, data, ok) ==
    [Call(op, kind, id, setid, data, ok) EXCEPT !.report = "none"]

\* thresholdprofile_id: replaced when the name is in perf_threshold_name_id
DryMapThreshold(rule) ==
    TranslateScalar(rule, "thresholdprofile_id", perf_threshold_name_id)

InitDry ==
    /\ policytype = PERFORMANCE
    /\ selection \in {PERFORMANCE, ALL}
    /\ dryrun \in BOOLEAN
    /\ dicts = NoDicts
    /\ \E liveA \in Presence, liveK \in Presence,
          liveRuleNames \in { {}, {"R1", "R2"} },
          docSets \in {"none", "A", "AD"},
          named \in BOOLEAN,
          docRules \in {"nokey", "R1", "R1R2"} :
         LET rn == IF docRules = "R1R2" THEN << "R1", "R2" >>
                   ELSE IF docRules = "R1" THEN << "R1" >> ELSE << >>
             hasRules == docRules # "nokey"
         IN  /\ loaded_config =
                    [ sets |-> CASE docSets = "none" -> Section(FALSE, << >>)
                                 [] docSets = "A" ->
                                      Section(TRUE, << DrySetEntry(SetA, named, hasRules, rn) >>)
                                 [] OTHER ->
                                      Section(TRUE, << DrySetEntry(SetA, named, hasRules, rn),
                                                       DrySetEntry(SetD(PERFORMANCE), named,
                                                                   hasRules, rn) >>),
                      stacks |-> Section(FALSE, << >>) ]
             /\ liveSets = InitLiveSets(policytype, liveA, liveK, liveRuleNames)
             /\ liveRules = InitLiveRules(policytype, liveA, liveK, liveRuleNames)
             /\ liveStacks = InitLiveStacks(policytype, liveA, liveK)
    /\ nextId = 0
    /\ set_name_config = [i \in {} |-> EmptyObj]
    /\ stack_name_config = [i \in {} |-> EmptyObj]
    /\ set_name_id = EmptyMap
    /\ set_id_name = EmptyMap
    /\ rule_name_id = EmptyMap
    /\ InitRun
    /\ calls = << >>
    /\ failures = 0
    /\ budget = MaxFailures
    /\ run = 1
    /\ visited = {}
    /\ origconf = EmptyObj
    /\ curconf = EmptyObj
    /\ confdelta = << >>

\* where the loops go after a Set entry with nrules rules, the next Set
\* being the one at index nsi
DryAfterSet(nrules, nsi) ==
    IF nrules > 0 THEN "rules"
    ELSE IF nsi <= Len(loaded_config.sets.items) THEN "sets" ELSE "return"

\* existing = {name: id} from the live Set list; "if not perf_sets: return"
DryBegin ==
    /\ pc = "begin"
    /\ \E ok \in Outcomes(FALSE) :
         /\ set_name_id' = IF ok THEN NameToId(liveSets) ELSE EmptyMap
         /\ calls' = Append(calls, DryCall("get", "sets", "", "", EmptyObj, ok))
         /\ failures' = failures + (IF ok THEN 0 ELSE 1)
         /\ budget' = budget - (IF ok THEN 0 ELSE 1)
    /\ si' = 1
    /\ pc' = IF Len(loaded_config.sets.items) = 0 THEN "return" ELSE "sets"
    /\ UNCHANGED << inputVars, diffVars, visited, storeVars, set_name_config, set_id_name,
                    stack_name_config, rule_name_id, fresh_id_map, local_id_name,
                    setVars, ki, dq, run >>

\* "Sync the Set": an update of the Set named in existing, else a create
DrySet ==
    /\ pc = "sets"
    /\ si <= Len(loaded_config.sets.items)
    /\ LET entry == loaded_config.sets.items[si]
           name == entry.name
           rules_list == IF "rules" \in DOMAIN entry.body THEN entry.rules ELSE << >>
           data == cleandata(Del(entry.body, "rules"))
           known == name \in DOMAIN set_name_id
           op == IF ~Sends(dryrun) THEN "none" ELSE IF known THEN "put" ELSE "post"
           liveNames == { NameOf(liveSets[i]) : i \in DOMAIN liveSets }
           mustFail == IF op = "post" THEN ~NameFree(data, liveNames)
                       ELSE op = "put" /\ set_name_id[name] \notin DOMAIN liveSets
       IN  \E ok \in (IF op = "none" THEN {TRUE} ELSE Outcomes(mustFail)),
              synth \in (IF op = "post" THEN SynthChoices(PERFORMANCE, data) ELSE { {} }) :
           LET created == op = "post" /\ ok
               sid == IF known THEN set_name_id[name]
                      ELSE IF op = "none" THEN "DRY-RUN-ID"
                      ELSE IF ok THEN NewId(nextId) ELSE ""
           IN  /\ liveSets' = IF created
                               THEN FunUnion([i \in {sid} |-> StoreCreated(data, sid)], liveSets)
                               ELSE IF op = "put" /\ ok THEN StoreUpdate(liveSets, sid, data)
                               ELSE liveSets
               /\ liveRules' = IF created
                                THEN FunUnion(SynthRules(PERFORMANCE, sid, synth), liveRules)
                                ELSE liveRules
               /\ nextId' = IF created THEN nextId + 1 ELSE nextId
               /\ calls' = IF op = "none" THEN calls
                           ELSE Append(calls, DryCall(op, "set", IF known THEN sid ELSE "",
                                                      "", data, ok))
               /\ failures' = failures + (IF ok THEN 0 ELSE 1)
               /\ budget' = budget - (IF ~ok /\ ~mustFail THEN 1 ELSE 0)
               /\ set_id' = sid
               /\ isNew' = ~known
               /\ cur' = name
               /\ set_yaml' = data
               /\ rules_yaml' = rules_list
               /\ ri' = 1
               /\ si' = si + 1
               /\ visited' = visited \cup { << "set", "", name >> }
               /\ pc' = DryAfterSet(Len(rules_list), si + 1)
    /\ UNCHANGED << inputVars, diffVars, liveStacks, catalogVars, fresh_id_map, local_id_name,
                    rules_ctrl, rule_mode, rule_ids, orders, orphans, ki, dq, run >>

\* "Sync the Rules": every listed rule is created in the Set
DryRule ==
    /\ pc = "rules"
    /\ ri <= Len(rules_yaml)
    /\ LET name == rules_yaml[ri].name
           data == cleandata(DryMapThreshold(rules_yaml[ri].body))
           op == IF Sends(dryrun) THEN "post" ELSE "none"
           taken == DOMAIN RulesOfSet(liveRules, set_id)
           mustFail == op = "post" /\ (set_id \notin DOMAIN liveSets \/ ~NameFree(data, taken))
           rid == NewId(nextId)
       IN  \E ok \in (IF op = "none" THEN {TRUE} ELSE Outcomes(mustFail)) :
           /\ liveRules' =
                 IF op = "post" /\ ok
                 THEN FunUnion([i \in {rid} |-> [set |-> set_id, obj |-> StoreCreated(data, rid)]],
                               liveRules)
                 ELSE liveRules
           /\ nextId' = IF op = "post" /\ ok THEN nextId + 1 ELSE nextId
           /\ calls' = IF op = "none" THEN calls
                       ELSE Append(calls, DryCall(op, "rule", "", set_id, data, ok))
           /\ failures' = failures + (IF ok THEN 0 ELSE 1)
           /\ budget' = budget - (IF ~ok /\ ~mustFail THEN 1 ELSE 0)
           /\ ri' = ri + 1
           /\ visited' = visited \cup { << "rule", cur, name >> }
           /\ pc' = DryAfterSet(Len(rules_yaml) - ri, si)
    /\ UNCHANGED << inputVars, diffVars, liveSets, liveStacks, catalogVars, fresh_id_map,
                    local_id_name, si, cur, set_yaml, set_id, isNew, rules_yaml, rules_ctrl,
                    rule_mode, rule_ids, orders, orphans, ki, dq, run >>

NextDry == DryBegin \/ DrySet \/ DryRule

SpecDry == InitDry /\ [][NextDry]_vars

(***************************************************************************)
(* The run under the scheduling of the program: a single thread whose      *)
(* remote calls all return, so a step that can be taken is taken.          *)
(* HasStep collects the conditions under which the loops of a push         *)
(* function have a next iteration (the guards of the actions of Next);     *)
(* StepWhenGuarded says that steps are taken from such states only.        *)
(* SpecLive is weak fairness of Next, WF_vars(Next), written out with      *)
(* HasStep as the enabling condition of Next.                              *)
(***************************************************************************)
HasStep ==
    \/ pc = "begin"
    \/ pc = "sets"
    \/ pc = "rules" /\ ri <= Len(rules_yaml)
    \/ pc = "order"
    \/ pc = "ruledel" /\ orphans # << >>
    \/ pc = "sync"
    \/ pc = "stacks" /\ ki <= Len(DesiredStacks.items)
    \/ pc = "stackdel" /\ dq # << >>
    \/ pc = "setdel" /\ dq # << >>
    \/ pc = "return"

StepTaken == []<><<Next>>_vars

SpecLive == Init /\ [][Next]_vars /\ ([]<>(~HasStep) \/ StepTaken)

(***************************************************************************)
(* go() with --policytype all: one load of the dictionaries of every       *)
(* domain, then the five push functions in turn.  The store holds the      *)
(* objects of all domains side by side, the same names under different     *)
(* ids; what is followed here is each lookup of a Set or Stack name and    *)
(* the ids it returns.                                                     *)
(***************************************************************************)
DomainOrder == << PATH, QOS, NAT, SECURITY, PERFORMANCE >>
NextDomain(d) == DomainOrder[(CHOOSE n \in 1..Len(DomainOrder) : DomainOrder[n] = d) + 1]

\* ids are unique over the tenant: the id of an object of domain d
DomId(d, x) == d \o "/" \o x
OwnIds(d) ==
    { DomId(d, SetId0(n)) : n \in SeqToSet(SetOrder(PATH)) }
    \cup { DomId(d, StackId0(StackK)) }
    \cup { DomId(d, NewId(k)) : k \in 0..nextId }
ForeignIds(d) == UNION { OwnIds(e) : e \in Domains \ {d} }

NamedObj(id, name) == [k \in {"id", "name"} |-> IF k = "id" THEN Str(id) ELSE Str(name)]

\* the objects of one kind of all domains; names[d] are those domain d holds
TenantObjs(names) ==
    LET pairs == UNION { { << d, n >> : n \in names[d] } : d \in Domains }
    IN  [i \in { DomId(p[1], "id:" \o p[2]) : p \in pairs } |->
            LET p == CHOOSE q \in pairs : DomId(q[1], "id:" \o q[2]) = i
            IN  NamedObj(i, p[2])]

\* the name -> id dictionary of domain d, read from the endpoint of d
DomainNameId(d, live) ==
    [n \in { NameOf(live[i]) : i \in (DOMAIN live) \cap OwnIds(d) } |->
        CHOOSE i \in (DOMAIN live) \cap OwnIds(d) : NameOf(live[i]) = n]

\* create_global_dicts_all: the Sets and Stacks of path, qos, nat and
\* security; of performance the threshold profiles only
LoadAllDicts(sets, stacks) ==
    [d \in Domains |->
        IF d = PERFORMANCE THEN [sets |-> EmptyMap, stacks |-> EmptyMap]
        ELSE [sets |-> DomainNameId(d, sets), stacks |-> DomainNameId(d, stacks)]]

\* variant: every branch of translate_stack reads the path dictionary
BranchDictPath(stack_type) == PATH
\* the dictionary the branch of translate_stack for stack_type reads
BranchDict(stack_type) == stack_type
\* the dictionaries push_policy_<d> reads
PushDict(d) == d

\* the domains whose push function records a created Set in the global
\* dictionary; nat and performance record it in local ones
RecordsGlobally(d) == d \in {PATH, QOS, SECURITY}

Lookup(kind, d, name, hit, ids) ==
    [op |-> "lookup", kind |-> kind, domain |-> d, name |-> name, hit |-> hit, ids |-> ids]

\* the ids a translated Stack carries
RefsOf(stack) ==
    LET dflt == Get(stack, "defaultrule_policyset_id")
        pids == Get(stack, "policyset_ids")
    IN  (IF dflt.t = "str" THEN {dflt.s} ELSE {})
        \cup (IF pids.t = "list" THEN SeqToSet(pids.l) ELSE {})

\* what a domain holds in the store: nothing, or both Sets and the Stack
Held == { "none", "AD" }
HeldSets(h) == IF h = "none" THEN {} ELSE {SetA, SetD(PATH)}
HeldStacks(h) == IF h = "AD" THEN {StackK} ELSE {}

InitAll ==
    /\ policytype = PATH
    /\ selection = ALL
    /\ dryrun = FALSE
    /\ \E docSets \in {"A", "AD"}, docStacks \in {"K", "KA"} :
          loaded_config = [ sets |-> DocSets(PATH, docSets, "nokey"),
                            stacks |-> DocStacks(PATH, docStacks) ]
    /\ \E held \in [Domains -> Held] :
          /\ liveSets = TenantObjs([d \in Domains |-> HeldSets(held[d])])
          /\ liveStacks = TenantObjs([d \in Domains |-> HeldStacks(held[d])])
    /\ liveRules = [i \in {} |-> [set |-> "", obj |-> EmptyObj]]
    /\ nextId = 0
    /\ dicts = LoadAllDicts(liveSets, liveStacks)
    /\ set_name_config = [i \in {} |-> EmptyObj]
    /\ stack_name_config = [i \in {} |-> EmptyObj]
    /\ set_name_id = EmptyMap
    /\ set_id_name = EmptyMap
    /\ rule_name_id = EmptyMap
    /\ InitRun
    /\ calls = << >>
    /\ failures = 0
    /\ budget = 0
    /\ run = 1
    /\ visited = {}
    /\ origconf = EmptyObj
    /\ curconf = EmptyObj
    /\ confdelta = << >>

allVars == << selection, dryrun, loaded_config, diffVars, liveRules, liveStacks, catalogVars,
              setVars, dq, failures, budget, run, visited >>

AllBegin ==
    /\ pc = "begin"
    /\ pc' = "all_sets"
    /\ UNCHANGED << allVars, policytype, dicts, liveSets, nextId, fresh_id_map, local_id_name,
                    si, ki, calls >>

\* one desired Set of push_policy_<d>: the name is looked up in the
\* dictionary of the domain; a Set not found is created
AllSet ==
    /\ pc = "all_sets"
    /\ si <= Len(DesiredSets.items)
    /\ LET d == policytype
           name == DesiredSets.items[si].name
           dict == dicts[PushDict(d)].sets
           hit == name \in DOMAIN dict
           inStore == \E i \in (DOMAIN liveSets) \cap OwnIds(d) : NameOf(liveSets[i]) = name
           new == DomId(d, NewId(nextId))
       IN  \E ok \in (IF hit THEN {TRUE} ELSE IF inStore THEN {FALSE} ELSE BOOLEAN) :
           LET sid == IF hit THEN dict[name] ELSE new
               known == hit \/ ok
           IN  /\ calls' = Append(calls, Lookup("set", d, name, hit, IF hit THEN {sid} ELSE {}))
               /\ liveSets' = IF ~hit /\ ok
                               THEN FunUnion([i \in {new} |-> NamedObj(new, name)], liveSets)
                               ELSE liveSets
               /\ nextId' = IF ~hit /\ ok THEN nextId + 1 ELSE nextId
               /\ dicts' = IF ~hit /\ ok /\ RecordsGlobally(d)
                            THEN [dicts EXCEPT ![PushDict(d)].sets =
                                     FunUnion([n \in {name} |-> new], @)]
                            ELSE dicts
               /\ fresh_id_map' = IF known /\ ~RecordsGlobally(d)
                                   THEN FunUnion([n \in {name} |-> sid], fresh_id_map)
                                   ELSE fresh_id_map
               /\ local_id_name' = IF known /\ ~RecordsGlobally(d)
                                    THEN FunUnion([i \in {sid} |-> name], local_id_name)
                                    ELSE local_id_name
    /\ si' = si + 1
    /\ ki' = 1
    /\ pc' = IF si < Len(DesiredSets.items) THEN "all_sets" ELSE "all_stacks"
    /\ UNCHANGED << allVars, policytype >>

\* one desired Stack of push_policy_<d>: the name is looked up in the
\* dictionary of the domain and the members are translated
AllStack ==
    /\ pc = "all_stacks"
    /\ ki <= Len(DesiredStacks.items)
    /\ LET d == policytype
           entry == DesiredStacks.items[ki]
           dict == dicts[PushDict(d)].stacks
           hit == entry.name \in DOMAIN dict
           data == StackDataIn(d, entry.name, entry.body, dicts[BranchDict(d)].sets)
       IN  calls' = Append(calls, Lookup("stack", d, entry.name, hit,
                                         (IF hit THEN {dict[entry.name]} ELSE {})
                                         \cup RefsOf(data)))
    /\ ki' = ki + 1
    /\ pc' = IF ki < Len(DesiredStacks.items) THEN "all_stacks" ELSE "all_next"
    /\ UNCHANGED << allVars, policytype, dicts, liveSets, nextId, fresh_id_map, local_id_name, si >>

\* the push function returns and go() calls the next one, whose local
\* dictionaries start empty
AllNextDomain ==
    /\ pc = "all_next"
    /\ IF policytype = PERFORMANCE
       THEN pc' = "done" /\ UNCHANGED policytype
       ELSE pc' = "all_sets" /\ policytype' = NextDomain(policytype)
    /\ si' = 1
    /\ ki' = 1
    /\ fresh_id_map' = EmptyMap
    /\ local_id_name' = EmptyMap
    /\ UNCHANGED << allVars, dicts, liveSets, nextId, calls >>

NextAll == AllBegin \/ AllSet \/ AllStack \/ AllNextDomain

SpecAll == InitAll /\ [][NextAll]_vars

(***************************************************************************)
(* The catalog load, read by read: create_global_dicts_<domain> and        *)
(* create_global_dicts_all.  Each read may fail.  A failed Set or Stack    *)
(* list read is tested with resp.cgx_status; the per-Set Rule read is      *)
(* tested with resp.cgx_content, which a failed read leaves empty or       *)
(* filled with the error body of the response.                             *)
(***************************************************************************)
\* the Sets and Stacks are read unless --policytype all loads the catalog
\* for the performance domain, whose part of create_global_dicts_all reads
\* the threshold profiles only
ReadsInventory(sel, d) == ~(sel = ALL /\ d = PERFORMANCE)

\* the order of the two list reads in the loader of the domain
FirstLoad(sel, d) ==
    IF ~ReadsInventory(sel, d) THEN "loaded"
    ELSE IF d = PERFORMANCE THEN "load_sets" ELSE "load_stacks"

AfterLoad(d, kind) ==
    IF d = PERFORMANCE
    THEN (IF kind = "sets" THEN "load_stacks" ELSE "loaded")
    ELSE (IF kind = "stacks" THEN "load_sets" ELSE "loaded")

\* the items of the Set list, in the order the loader iterates them
LoadItems == OrderedNames(SetOrder(policytype), { NameOf(liveSets[i]) : i \in DOMAIN liveSets })

\* what a read of the rules of one Set answers
RuleReads == {"items", "error_body", "no_body"}

InitLoad ==
    /\ policytype \in Domains
    /\ selection \in {policytype, ALL}
    /\ dryrun = FALSE
    /\ dicts = NoDicts
    /\ loaded_config = [ sets |-> Section(FALSE, << >>), stacks |-> Section(FALSE, << >>) ]
    /\ \E liveA \in Presence, liveK \in Presence, liveRuleNames \in { {}, {"R1", "R2"} } :
         /\ liveSets = InitLiveSets(policytype, liveA, liveK, liveRuleNames)
         /\ liveRules = InitLiveRules(policytype, liveA, liveK, liveRuleNames)
         /\ liveStacks = InitLiveStacks(policytype, liveA, liveK)
    /\ nextId = 0
    /\ set_name_config = [i \in {} |-> EmptyObj]
    /\ stack_name_config = [i \in {} |-> EmptyObj]
    /\ set_name_id = EmptyMap
    /\ set_id_name = EmptyMap
    /\ rule_name_id = EmptyMap
    /\ InitRun
    /\ calls = << >>
    /\ failures = 0
    /\ budget = 0
    /\ run = 1
    /\ visited = {}
    /\ origconf = EmptyObj
    /\ curconf = EmptyObj
    /\ confdelta = << >>

loadVars == << inputVars, diffVars, storeVars, fresh_id_map, local_id_name, setVars,
               ki, dq, budget, run, visited >>

\* go() calls the loader of the selection
LoadBegin ==
    /\ pc = "begin"
    /\ pc' = FirstLoad(selection, policytype)
    /\ UNCHANGED << loadVars, catalogVars, si, calls, failures >>

\* resp = get.<stacks>(); the name maps are filled if resp.cgx_status
LoadStacks ==
    /\ pc = "load_stacks"
    /\ \E ok \in BOOLEAN :
          /\ stack_name_config' = IF ok THEN ByName(liveStacks) ELSE stack_name_config
          /\ calls' = Append(calls, Call("get", "stacks", "", "", EmptyObj, ok))
          /\ failures' = failures + (IF ok THEN 0 ELSE 1)
    /\ pc' = AfterLoad(policytype, "stacks")
    /\ UNCHANGED << loadVars, set_name_config, set_name_id, set_id_name, rule_name_id, si >>

\* resp = get.<sets>(); if resp.cgx_status the items are iterated, and all
\* but the performance loader read the rules of each item
LoadSets ==
    /\ pc = "load_sets"
    /\ \E ok \in BOOLEAN :
          /\ calls' = Append(calls, Call("get", "sets", "", "", EmptyObj, ok))
          /\ failures' = failures + (IF ok THEN 0 ELSE 1)
          /\ set_name_config' = IF ok /\ policytype = PERFORMANCE
                                 THEN ByName(liveSets) ELSE set_name_config
          /\ pc' = IF ok /\ policytype # PERFORMANCE /\ LoadItems # << >>
                    THEN "load_rules" ELSE AfterLoad(policytype, "sets")
    /\ si' = 1
    /\ UNCHANGED << loadVars, stack_name_config, set_name_id, set_id_name, rule_name_id >>

\* one item of the Set list: its name maps are filled, its rules are read;
\* "if resp.cgx_content:" lets an error body through, whose "items" is
\* None, and the loop over None raises
LoadRules ==
    /\ pc = "load_rules"
    /\ LET name == LoadItems[si]
           sid == SetId0(name)
           rules == [i \in { j \in DOMAIN liveRules : liveRules[j].set = sid } |-> liveRules[i]]
       IN  /\ set_name_config' = [n \in DOMAIN set_name_config \cup {name} |->
                                    IF n = name THEN liveSets[sid] ELSE set_name_config[n]]
           /\ set_name_id' = [n \in DOMAIN set_name_id \cup {name} |->
                                IF n = name THEN sid ELSE set_name_id[n]]
           /\ set_id_name' = [i \in DOMAIN set_id_name \cup {sid} |->
                                IF i = sid THEN name ELSE set_id_name[i]]
           /\ \E answer \in RuleReads :
                 /\ calls' = Append(calls, Call("get", "rules", "", sid, EmptyObj, answer = "items"))
                 /\ failures' = failures + (IF answer = "items" THEN 0 ELSE 1)
                 /\ rule_name_id' =
                       IF answer = "items"
                       THEN [t \in DOMAIN rule_name_id \cup DOMAIN RuleNameToId(rules) |->
                               IF t \in DOMAIN rule_name_id THEN rule_name_id[t]
                               ELSE RuleNameToId(rules)[t]]
                       ELSE rule_name_id
                 /\ pc' = IF answer = "error_body" THEN "load_raised"
                          ELSE IF si < Len(LoadItems) THEN "load_rules"
                          ELSE AfterLoad(policytype, "sets")
    /\ si' = si + 1
    /\ UNCHANGED << loadVars, stack_name_config >>

NextLoad == LoadBegin \/ LoadStacks \/ LoadSets \/ LoadRules

SpecLoad == InitLoad /\ [][NextLoad]_vars

(***************************************************************************)
(* Properties.                                                             *)
(***************************************************************************)
CallIdx == 1..Len(calls)
IsCreateOrUpdate(c) == c.op \in {"post", "put"}
IsWrite(c) == c.op \in {"post", "put", "delete"}
Deletes(kind, id) ==
    { n \in CallIdx : calls[n].op = "delete" /\ calls[n].kind = kind /\ calls[n].id = id }
RunEnded == pc \in {"done", "crashed"}

\* the desired document lacks the Sets list, the Stacks list or a Set's rule list
DocLacksKey ==
    \/ ~loaded_config.sets.present
    \/ ~loaded_config.stacks.present
    \/ \E n \in 1..Len(loaded_config.sets.items) :
          RulesKey(policytype) \notin DOMAIN loaded_config.sets.items[n].body

\* the names of the desired rules of the desired Set called name
DesiredRuleNames(name) ==
    UNION { RuleNamesOf(rawrules(policytype, DesiredSets.items[n])) :
              n \in { m \in 1..Len(DesiredSets.items) : DesiredSets.items[m].name = name } }

\* C1: in every domain, no Delete call is issued for a live Set whose
\* defaultrule_policyset flag is true nor for a live Stack whose
\* default_policysetstack flag is true.
C1_DefaultNeverDeleted ==
    /\ \A nm \in DOMAIN set_name_config :
          IsTrue(Get(set_name_config[nm], "defaultrule_policyset"))
            => Deletes("set", IdOf(set_name_config[nm])) = {}
    /\ \A nm \in DOMAIN stack_name_config :
          IsTrue(Get(stack_name_config[nm], "default_policysetstack"))
            => Deletes("stack", IdOf(stack_name_config[nm])) = {}

\* the Sets that the desired Stacks list as members are desired Sets
DocConsistent ==
    \A n \in 1..Len(loaded_config.stacks.items) :
       SeqToSet(loaded_config.stacks.items[n].body["policyset_ids"].l) \subseteq DesiredSetNames

\* C2: after a first run in which every remote call succeeded (the store
\* applying each write as sent), the second run against the same desired
\* document issues no Create, Update or Delete.
C2_SecondRunIssuesNothing ==
    (DocConsistent /\ \A m \in CallIdx : calls[m].run = 1 => calls[m].ok)
      => \A n \in CallIdx : calls[n].run = 2 => ~IsWrite(calls[n])

\* C3: when the run has ended, every live Set and every live Stack that the
\* desired document does not name and that is not default-flagged has had
\* exactly one Delete call.
C3_OrphanDeletedOnce ==
    RunEnded =>
      /\ \A nm \in DOMAIN set_name_config :
            (nm \notin DesiredSetNames
             /\ ~IsTrue(Get(set_name_config[nm], "defaultrule_policyset")))
              => Cardinality(Deletes("set", IdOf(set_name_config[nm]))) = 1
      /\ \A nm \in DOMAIN stack_name_config :
            (nm \notin DesiredStackNames
             /\ ~IsTrue(Get(stack_name_config[nm], "default_policysetstack")))
              => Cardinality(Deletes("stack", IdOf(stack_name_config[nm]))) = 1

\* C4: when the run has returned and every remote call succeeded, every Rule
\* of a desired Set (read from the store or synthesized at the Set's
\* creation) whose name is not a desired rule name of the Set has had exactly
\* one Delete call: none is still live without one, and none has had two.
C4_OrphanRulesDeletedOnce ==
    (pc = "done" /\ failures = 0) =>
      /\ \A i \in DOMAIN liveRules :
            LET sid == liveRules[i].set
            IN  (/\ sid \in DOMAIN liveSets
                 /\ NameOf(liveSets[sid]) \in DesiredSetNames
                 /\ NameOf(liveRules[i].obj) \notin DesiredRuleNames(NameOf(liveSets[sid])))
                  => Cardinality(Deletes("rule", i)) = 1
      /\ \A n \in CallIdx :
            (calls[n].op = "delete" /\ calls[n].kind = "rule")
              => Cardinality(Deletes("rule", calls[n].id)) = 1

\* C5: when the run has returned and every remote call succeeded, every entry
\* of an order field written to a Set is the id of a Rule that exists in that
\* Set.
C5_OrderEntriesExist ==
    (pc = "done" /\ failures = 0) =>
      \A n \in CallIdx :
        LET c == calls[n]
        IN  (c.kind = "set" /\ IsCreateOrUpdate(c) /\ c.ok) =>
              \A k \in OrderKeySet(policytype) \cap DOMAIN c.data :
                 \A e \in SeqToSet(c.data[k].l) :
                    e \in DOMAIN liveRules /\ liveRules[e].set = c.id


IsUpdateOfExisting(c) == c.op = "put" /\ c.live # EmptyObj
\* the separate update that carries a Set's order field(s)
IsOrderUpdate(c) ==
    /\ c.kind = "set"
    /\ OrderKeySet(policytype) # {}
    /\ DOMAIN c.data = {"id"} \cup OrderKeySet(policytype)
\* the attribute update of a Set from which the branch removes the order field(s)
StripsOrder(c) ==
    /\ c.kind = "set"
    /\ \/ policytype = NAT
       \/ /\ policytype \in {SECURITY, PERFORMANCE}
          /\ IsTrue(Get(c.data, "defaultrule_policyset"))
\* keys of a live object that no desired object carries
LiveOnlyKeys == {"id", "_etag"}

C7_SelfCompareEmpty ==
    (pc = "compared" /\ curconf = origconf) => confdelta = << >>

\* compareconf has been applied to a map and itself, the map holding a
\* non-empty list and a non-empty nested map
C7_Witness ==
    /\ pc = "compared"
    /\ curconf = origconf
    /\ DOMAIN origconf = DiffKeyNames
    /\ origconf["description"].t = "list" /\ Len(origconf["description"].l) > 1
    /\ origconf["paths_allowed"].t = "map" /\ Cardinality(origconf["paths_allowed"].m) > 1

\* C8: no Set Create or Set Update call comes after a Stack Create or Stack
\* Update call of the run.
C8_SetsBeforeStacks ==
    \A i, j \in CallIdx :
       (i < j /\ calls[i].kind = "stack" /\ IsCreateOrUpdate(calls[i]))
         => ~(calls[j].kind = "set" /\ IsCreateOrUpdate(calls[j]))

\* a Set has been created and its order fields written, and a Stack has been
\* written after that
C8_Witness ==
    \E i, j, k \in CallIdx :
       /\ i < j /\ j < k
       /\ calls[i].kind = "set" /\ calls[i].op = "post" /\ calls[i].ok
       /\ calls[j].kind = "set" /\ calls[j].op = "put"
       /\ calls[k].kind = "stack" /\ IsCreateOrUpdate(calls[k])

FailedSetCreate(name) ==
    \E n \in CallIdx :
       /\ calls[n].kind = "set" /\ calls[n].op = "post" /\ ~calls[n].ok
       /\ NameOf(calls[n].data) = name
SetsAndStacksVisited ==
    /\ \A nm \in DesiredSetNames : << "set", "", nm >> \in visited
    /\ \A nm \in DesiredStackNames : << "stack", "", nm >> \in visited

C10_MissingKeyTolerated == DocLacksKey => pc # "crashed"

\* the desired document has no section of the domain: neither list is there
DocLacksDomain == ~loaded_config.sets.present /\ ~loaded_config.stacks.present

\* C11: when the desired document has no section for the domain, the run
\* issues no Create, Update or Delete call.
C11_AbsentDomainUntouched ==
    DocLacksDomain => \A n \in CallIdx : ~IsWrite(calls[n])

(***************************************************************************)
(* Properties of the rule translation.                                     *)
(***************************************************************************)
Translated == pc = "translated"
IdsOf(name_id) == { name_id[n] : n \in DOMAIN name_id }

\* C12: a scalar reference field whose name has no catalog entry is left
\* unchanged by the translation, and a list-valued reference field keeps
\* every element, each name without an entry unchanged at its place.
C12_UnresolvedPassThrough ==
    Translated =>
      \A k \in (DOMAIN RefCatalog(policytype)) \cap (DOMAIN origconf) :
         LET name_id == RefCatalog(policytype)[k]
             was == origconf[k]
             now == Get(curconf, k)
         IN  IF k \in ListRefKeys
             THEN /\ Len(now.l) = Len(was.l)
                  /\ \A n \in 1..Len(was.l) :
                        was.l[n] \notin DOMAIN name_id => now.l[n] = was.l[n]
             ELSE was.s \notin DOMAIN name_id => now = was

\* C13: in the rule data that the rule loop compares and sends, every
\* reference whose name has a catalog entry has been replaced by the
\* entry's id: scalar fields, the elements of list fields, and the pool of
\* each entry of a NAT rule's actions.
C13_ResolvedReplaced ==
    Translated =>
      /\ \A k \in (DOMAIN RefCatalog(policytype)) \cap (DOMAIN origconf) :
            LET name_id == RefCatalog(policytype)[k]
                was == origconf[k]
                now == Get(curconf, k)
                hits == SelectSeq(was.l, LAMBDA x : x \in DOMAIN name_id)
            IN  IF k \in ListRefKeys
                THEN SelectSeq(now.l, LAMBDA x : x \in IdsOf(name_id) \cup DOMAIN name_id)
                        = [n \in 1..Len(hits) |-> name_id[hits[n]]]
                ELSE was.s \in DOMAIN name_id => now = Str(name_id[was.s])
      /\ (policytype = NAT /\ "actions" \in DOMAIN origconf) =>
            \A n \in 1..Len(origconf["actions"].l) :
               ActionPool(origconf["actions"].l[n]) \in DOMAIN natpool_name_id
                 => ActionPool(curconf["actions"].l[n])
                      = natpool_name_id[ActionPool(origconf["actions"].l[n])]

(***************************************************************************)
(* Properties of the creation of a Set.                                    *)
(***************************************************************************)
\* the Create calls of the desired Set called name
SetCreates(name) ==
    { n \in CallIdx : /\ calls[n].kind = "set" /\ calls[n].op = "post"
                      /\ NameOf(calls[n].data) = name }
\* the id the store returned for the created Set called name
CreatedId(name) == CHOOSE i \in DOMAIN liveSets : NameOf(liveSets[i]) = name
\* the ids of the rules the store may have synthesized in the Set sid
SynthIds(sid) == { sid \o "/" \o r : r \in SeqToSet(RuleOrder) }
\* the set called name was created in this run, the store synthesizing no rule
CreatedPlain(name) ==
    /\ name \in DesiredSetNames
    /\ name \notin DOMAIN set_name_config
    /\ \E n \in SetCreates(name) : calls[n].ok
    /\ \A i \in SynthIds(CreatedId(name)) : i \notin DOMAIN liveRules /\ Deletes("rule", i) = {}
RuleCreates(sid) ==
    { n \in CallIdx : calls[n].kind = "rule" /\ calls[n].op = "post" /\ calls[n].set = sid }

\* C14: when the run has ended, a desired Set that was not live, was created
\* and got no synthesized rule has had exactly one Set Create, after it
\* exactly one Rule Create per desired Rule, each addressed to the id the
\* Create returned, and no Delete of the Set or of a Rule of it.
C14_NewSetCreatesOnly ==
    RunEnded =>
      \A name \in DesiredSetNames :
         CreatedPlain(name) =>
           LET sid == CreatedId(name)
           IN  /\ Cardinality(SetCreates(name)) = 1
               /\ Cardinality(RuleCreates(sid)) = Cardinality(DesiredRuleNames(name))
               /\ \A n \in RuleCreates(sid) : \A m \in SetCreates(name) : m < n
               /\ Deletes("set", sid) = {}
               /\ \A n \in CallIdx :
                     ~(calls[n].op = "delete" /\ calls[n].kind = "rule" /\ calls[n].set = sid)

\* the run has returned after creating a Set without synthesized rules and
\* creating its two desired Rules
C14_Witness ==
    /\ pc = "done"
    /\ \E name \in DesiredSetNames :
          /\ CreatedPlain(name)
          /\ Cardinality(RuleCreates(CreatedId(name))) = 2
          /\ \A n \in RuleCreates(CreatedId(name)) : calls[n].ok

(***************************************************************************)
(* Properties of the catalog.                                              *)
(***************************************************************************)
\* C15: for every domain and both selections (the domain alone, or all), no
\* Create is sent for a Set or Stack whose name is that of a live Set or
\* Stack of the domain.
C15_LiveNameNeverCreated ==
    \A n \in CallIdx :
       (calls[n].op = "post" /\ calls[n].kind \in {"set", "stack"}) => ~calls[n].named

(***************************************************************************)
(* Properties of the report.                                               *)
(***************************************************************************)
\* C16: every Create, Update and Delete call has a report line that states
\* its result: created, updated or deleted when the call succeeded, failed
\* when it did not.
C16_ReportMatchesResult ==
    \A n \in CallIdx :
       IsWrite(calls[n]) =>
          calls[n].report = (IF calls[n].ok THEN ReportWord(calls[n].op) ELSE "failed")

(***************************************************************************)
(* Properties of the integrated restore tool.                              *)
(***************************************************************************)
\* C17: with dryrun set, push_policy_performance of the integrated restore
\* tool makes no call but the read of the live Set list, and no step of it
\* changes the store.
C17_DryRunWritesNothing ==
    [][dryrun => /\ UNCHANGED storeVars
                 /\ \A n \in (Len(calls) + 1)..Len(calls') :
                       calls'[n].op = "get" /\ calls'[n].kind = "sets"]_vars
\* a dry run that met a Set to update, a Set to create and their rules
C17_Witness ==
    /\ dryrun
    /\ pc = "return"
    /\ \E a, b \in { loaded_config.sets.items[n].name : n \in 1..Len(loaded_config.sets.items) } :
          /\ a \in DOMAIN set_name_id
          /\ b \notin DOMAIN set_name_id
          /\ { << "set", "", a >>, << "set", "", b >>,
               << "rule", a, "R1" >>, << "rule", b, "R1" >> } \subseteq visited

(***************************************************************************)
(* Properties of the Stack payload.                                        *)
(***************************************************************************)
LastCall == calls[Len(calls)]
\* the member names the document lists for the Stack called name
DesiredMembers(name) ==
    UNION { LET v == Get(DesiredStacks.items[n].body, "policyset_ids")
            IN  IF v.t = "list" THEN SeqToSet(v.l) ELSE {} :
            n \in { k \in 1..Len(DesiredStacks.items) : DesiredStacks.items[k].name = name } }
\* the members a Stack payload carries
PayloadMembers(data) ==
    IF Get(data, "policyset_ids").t = "list" THEN SeqToSet(data["policyset_ids"].l) ELSE {}
\* C18: when a Stack is created or updated, every member name of the desired
\* Stack that names a Set the store holds at that time is in the payload as
\* the ID of that Set.
C18_MembersResolved ==
    (Len(calls) > 0 /\ LastCall.kind = "stack" /\ IsCreateOrUpdate(LastCall)) =>
        \A m \in DesiredMembers(NameOf(LastCall.data)) :
           \A i \in DOMAIN liveSets :
              NameOf(liveSets[i]) = m => i \in PayloadMembers(LastCall.data)

(***************************************************************************)
(* Properties of the rules of a Set created in the run.                    *)
(***************************************************************************)
\* the successful Set Creates of the history
SetsCreated == { n \in CallIdx : calls[n].kind = "set" /\ calls[n].op = "post" /\ calls[n].ok }
\* the calls after n that create or update a Rule of the Set sid
RuleWritesAfter(n, sid) ==
    { m \in CallIdx : /\ m > n
                      /\ calls[m].kind = "rule" /\ IsCreateOrUpdate(calls[m])
                      /\ calls[m].set = sid }
\* the rules of the Set sid are read between the calls n and m
ReadBetween(n, m, sid) ==
    \E g \in CallIdx : /\ n < g /\ g < m
                       /\ calls[g].op = "get" /\ calls[g].kind = "rules" /\ calls[g].set = sid
\* the call creates a Rule under the name of a Rule the store synthesized
CreatesSynthesized(c, sid) ==
    /\ c.op = "post"
    /\ "name" \in DOMAIN c.data
    /\ (sid \o "/" \o NameOf(c.data)) \in DOMAIN liveRules
\* C19: the rules of every Set created in the run are read after its Create
\* and before a desired Rule of it is created or updated, and no Rule is
\* created under the name of a Rule the store synthesized in that Set.
C19_CreatedSetRulesRead ==
    \A n \in SetsCreated :
       \A m \in RuleWritesAfter(n, CreatedId(NameOf(calls[n].data))) :
          /\ ReadBetween(n, m, CreatedId(NameOf(calls[n].data)))
          /\ ~CreatesSynthesized(calls[m], CreatedId(NameOf(calls[n].data)))

(***************************************************************************)
(* Properties of the order update.                                         *)
(***************************************************************************)
\* the desired Sets that are not default Sets, are in the store, and whose
\* document entry holds a non-empty list under an order key
OrderedSets ==
    { n \in 1..Len(DesiredSets.items) :
        /\ ~IsTrue(Get(DesiredSets.items[n].body, "defaultrule_policyset"))
        /\ \E i \in DOMAIN liveSets : NameOf(liveSets[i]) = DesiredSets.items[n].name
        /\ \E k \in OrderKeySet(policytype) : Truthy(Get(DesiredSets.items[n].body, k)) }
\* the ids of the live rules of the Set sid that the list order names
OrderIds(sid, order) ==
    { i \in DOMAIN liveRules :
        liveRules[i].set = sid /\ NameOf(liveRules[i].obj) \in SeqToSet(order.l) }
\* the call is the narrow update of the Set sid for the document entry body
OrderUpdateOf(c, sid, body) ==
    /\ c.op = "put" /\ c.kind = "set" /\ c.id = sid
    /\ DOMAIN c.data = {"id"} \cup OrderKeySet(policytype)
    /\ \A k \in OrderKeySet(policytype) :
          /\ c.data[k].t = "list"
          /\ Truthy(Get(body, k)) => SeqToSet(c.data[k].l) \subseteq OrderIds(sid, body[k])
\* C20: when the run has returned, every desired non-default Set with a
\* non-empty order field has had an Update that carries only its id and its
\* order field(s), the entries being IDs of rules of the Set that the
\* document's order names.
C20_NarrowOrderUpdate ==
    pc = "done" =>
      \A n \in OrderedSets :
         \E m \in CallIdx :
            OrderUpdateOf(calls[m], CreatedId(DesiredSets.items[n].name), DesiredSets.items[n].body)

(***************************************************************************)
(* Properties of the default Set.                                          *)
(***************************************************************************)
\* the call updates a Set that the store flags as the default Set
UpdatesLiveDefault(c) ==
    /\ c.op = "put" /\ c.kind = "set"
    /\ IsTrue(Get(c.live, "defaultrule_policyset"))
\* C21: no Update of a Set that the store flags default carries an order
\* field.
C21_DefaultOrderWithheld ==
    \A n \in CallIdx :
       UpdatesLiveDefault(calls[n]) => (DOMAIN calls[n].data) \cap OrderKeySet(policytype) = {}

(***************************************************************************)
(* Properties of the rule loop.                                            *)
(***************************************************************************)
\* the rule loop is at a desired Rule that translates without raising
AtRule == pc = "rules" /\ ri <= Len(rules_yaml) /\ ~RuleRaises(policytype, rules_yaml[ri].body)
\* the desired Rule the loop is at has, after translation, the attributes
\* of the live Rule of its name as read from the store
AtUnchangedRule ==
    /\ AtRule
    /\ rules_yaml[ri].name \in DOMAIN rules_ctrl
    /\ compareconf(RuleData(policytype, rules_yaml[ri].body), rules_ctrl[rules_yaml[ri].name]) = << >>
\* C22: the step of the rule loop at an unchanged Rule issues no call and,
\* where the branch keeps a rule name -> id map, records the id of the live
\* Rule under the Rule's name.
C22_UnchangedRuleSkipped ==
    [][AtUnchangedRule =>
          /\ calls' = calls
          /\ TracksRuleIds(policytype, isNew) =>
                /\ rules_yaml[ri].name \in DOMAIN rule_ids'
                /\ rule_ids'[rules_yaml[ri].name] = IdOf(rules_ctrl[rules_yaml[ri].name])]_vars
\* the ids a payload lists under the order keys
OrderEntries(data) ==
    UNION { IF data[k].t = "list" THEN SeqToSet(data[k].l) ELSE {} :
              k \in (DOMAIN data) \cap OrderKeySet(policytype) }
\* C23: a step of the rule loop adds the Rule's name to the rule name -> id
\* map only if it issued no call (the Rule was unchanged) or its Create or
\* Update succeeded, and the order update sent after the loop lists only
\* ids held by the map.
C23_MapHoldsResolvedOnly ==
    [][/\ (AtRule /\ rules_yaml[ri].name \in (DOMAIN rule_ids') \ (DOMAIN rule_ids))
            => (calls' = calls \/ calls'[Len(calls')].ok)
       /\ (pc = "order" /\ calls' # calls)
            => OrderEntries(calls'[Len(calls')].data) \subseteq { rule_ids[r] : r \in DOMAIN rule_ids }]_vars
\* a Set one of whose Rule writes failed has had its order update, which
\* lists the id of another Rule
C23_Witness ==
    \E n, m \in CallIdx :
       /\ n < m
       /\ calls[n].kind = "rule" /\ IsCreateOrUpdate(calls[n]) /\ ~calls[n].ok
       /\ IsOrderUpdate(calls[m]) /\ calls[m].op = "put" /\ calls[m].id = calls[n].set
       /\ OrderEntries(calls[m].data) # {}

(***************************************************************************)
(* Properties of a failed Set write.                                       *)
(***************************************************************************)
\* the attribute Update of the Set called name failed
FailedSetUpdate(name) ==
    \E n \in CallIdx :
       /\ calls[n].kind = "set" /\ calls[n].op = "put" /\ ~calls[n].ok
       /\ "name" \in DOMAIN calls[n].data /\ NameOf(calls[n].data) = name
\* the run is in the rule loop or at the order update of the Set cur
InRulesOfCur == pc \in {"rules", "order"}
DesiredDefaultRefs(name) ==
    { Get(DesiredStacks.items[n].body, "defaultrule_policyset_id") :
        n \in { k \in 1..Len(DesiredStacks.items) : DesiredStacks.items[k].name = name } }
\* C25: when a Stack is created or updated and the document's default
\* reference names a Set the store holds, the payload's
\* defaultrule_policyset_id is the ID of that Set.
C25_DocumentDefaultKept ==
    (Len(calls) > 0 /\ LastCall.kind = "stack" /\ IsCreateOrUpdate(LastCall)) =>
        \A ref \in DesiredDefaultRefs(NameOf(LastCall.data)) :
           \A i \in DOMAIN liveSets :
              (ref.t = "str" /\ NameOf(liveSets[i]) = ref.s)
                 => Get(LastCall.data, "defaultrule_policyset_id") = Str(i)

(***************************************************************************)
(* Properties of the Set payload.                                          *)
(***************************************************************************)
\* C26: the payload of every Set Create carries clone_from as null.
C26_CloneFromNull ==
    \A n \in CallIdx :
       (calls[n].kind = "set" /\ calls[n].op = "post")
          => ("clone_from" \in DOMAIN calls[n].data => calls[n].data["clone_from"] = Null)

(***************************************************************************)
(* Properties of the catalog during the pass.                              *)
(***************************************************************************)
\* C27: no step of the reconciliation pass changes a catalog map: the
\* name -> id and id -> name maps and the live objects kept by name.
C27_CatalogReadOnly == [][UNCHANGED catalogVars]_vars

(***************************************************************************)
(* Properties of the default flags of the document.                        *)
(***************************************************************************)
\* the document entry with the other value of the flag key
FlipFlag(body, key) ==
    IF key \in DOMAIN body /\ body[key].t = "bool"
    THEN Put(body, key, Bool(~IsTrue(body[key])))
    ELSE body
\* the Set the loop is at, as the catalog holds it
CtrlOfNext ==
    IF DesiredSets.items[si].name \in DOMAIN set_name_config
    THEN set_name_config[DesiredSets.items[si].name] ELSE EmptyObj
\* C28: the call made for a desired Set, and the payload built for a desired
\* Stack, are the same when the document gives the other value to
\* defaultrule_policyset, or to default_policysetstack.
C28_DocumentFlagIgnored ==
    /\ (pc = "sets" /\ si <= Len(DesiredSets.items)) =>
          /\ SetWriteOp(policytype, FlipFlag(DesiredSets.items[si].body, "defaultrule_policyset"),
                        CtrlOfNext = EmptyObj, CtrlOfNext)
               = SetWriteOp(policytype, DesiredSets.items[si].body, CtrlOfNext = EmptyObj, CtrlOfNext)
          /\ SetWriteData(policytype, FlipFlag(DesiredSets.items[si].body, "defaultrule_policyset"),
                          CtrlOfNext = EmptyObj, CtrlOfNext)
               = SetWriteData(policytype, DesiredSets.items[si].body, CtrlOfNext = EmptyObj, CtrlOfNext)
    /\ (pc = "stacks" /\ ki <= Len(DesiredStacks.items)) =>
          StackData(policytype, DesiredStacks.items[ki].name,
                    FlipFlag(DesiredStacks.items[ki].body, "default_policysetstack"))
            = StackData(policytype, DesiredStacks.items[ki].name, DesiredStacks.items[ki].body)
\* the keys under which a document entry of a Set embeds its rules
RuleListKeys == { RulesKey(d) : d \in Domains }
\* the Creates / Updates of a Set whose document entry embeds a rule list
SetWritesWithRules(op) ==
    { n \in CallIdx :
        /\ calls[n].kind = "set" /\ calls[n].op = op
        /\ "name" \in DOMAIN calls[n].data
        /\ \E k \in 1..Len(DesiredSets.items) :
              /\ DesiredSets.items[k].name = NameOf(calls[n].data)
              /\ RulesKey(policytype) \in DOMAIN DesiredSets.items[k].body }
\* C29: no payload of a Set Create or Update carries a rule list key.
C29_NoEmbeddedRules ==
    \A n \in CallIdx :
       (calls[n].kind = "set" /\ IsCreateOrUpdate(calls[n]))
          => (DOMAIN calls[n].data) \cap RuleListKeys = {}
\* a Set whose document entry embeds rules has been created, and another
\* one has been updated
C29_Witness == SetWritesWithRules("post") # {} /\ SetWritesWithRules("put") # {}

(***************************************************************************)
(* Properties of the Stack normalisation.                                  *)
(***************************************************************************)
\* C30: the Stack payload that is diffed, and the payload of every Stack
\* Create or Update, never carries policyset_ids as an empty list.
C30_EmptyMembersNull ==
    /\ (pc = "stacks" /\ ki <= Len(DesiredStacks.items)) =>
          Get(StackData(policytype, DesiredStacks.items[ki].name, DesiredStacks.items[ki].body),
              "policyset_ids") # List(<< >>)
    /\ \A n \in CallIdx :
          (calls[n].kind = "stack" /\ IsCreateOrUpdate(calls[n]))
             => Get(calls[n].data, "policyset_ids") # List(<< >>)
\* a Stack whose member list translated to the empty list has been written
\* with policyset_ids null
C30_Witness ==
    \E n \in CallIdx :
       /\ calls[n].kind = "stack" /\ IsCreateOrUpdate(calls[n])
       /\ "policyset_ids" \in DOMAIN calls[n].data
       /\ calls[n].data["policyset_ids"] = Null

(***************************************************************************)
(* Properties of the names injected by the loader.                         *)
(***************************************************************************)
\* the keys of the desired objects of a kind
DesiredKeys(kind) ==
    CASE kind = "set" -> DesiredSetNames
      [] kind = "stack" -> DesiredStackNames
      [] OTHER -> UNION { DesiredRuleNames(nm) : nm \in DesiredSetNames }
\* C31: the payload of every Create of a Stack, Set or Rule carries a name,
\* which is the key of a desired object of that kind.
C31_CreateCarriesName ==
    \A n \in CallIdx :
       calls[n].op = "post" =>
          /\ "name" \in DOMAIN calls[n].data
          /\ calls[n].data["name"].t = "str"
          /\ calls[n].data["name"].s \in DesiredKeys(calls[n].kind)

\* the number of positions of the list q that hold x
Occurrences(q, x) == Cardinality({ i \in 1..Len(q) : q[i] = x })

\* two list values with the same elements, each as often, in another order
Reordered(a, b) ==
    /\ a.t = "list" /\ b.t = "list"
    /\ a.l # b.l
    /\ Len(a.l) = Len(b.l)
    /\ \A i \in 1..Len(a.l) : Occurrences(a.l, a.l[i]) = Occurrences(b.l, a.l[i])

ReorderedKeys ==
    { k \in (DOMAIN origconf) \cap (DOMAIN curconf) : Reordered(origconf[k], curconf[k]) }

\* C32: a key whose two list values hold the same elements in a different
\* order is in the result of compareconf.
C32_ReorderedListReported ==
    pc = "compared" => \A k \in ReorderedKeys : InSeq(k, confdelta)

\* compareconf has been applied to two maps with such a key
C32_Witness ==
    pc = "compared" /\ ReorderedKeys # {}

\* the keys of both maps whose values differ in at least two positions of a
\* list or two fields of a nested map
ManyNested ==
    { k \in (DOMAIN origconf) \cap (DOMAIN curconf) :
        Len(DiffVal(k, origconf[k], curconf[k])) > 1 }

\* C33: the result of compareconf holds top-level key names of the compared
\* maps only, and no name twice.
C33_TopLevelKeysOnce ==
    pc = "compared" =>
       /\ \A n \in 1..Len(confdelta) : confdelta[n] \in (DOMAIN origconf) \cup (DOMAIN curconf)
       /\ \A m, n \in 1..Len(confdelta) : confdelta[m] = confdelta[n] => m = n

\* compareconf has been applied to two maps one key of which differs in
\* several nested places, and has reported that key
C33_Witness ==
    /\ pc = "compared"
    /\ \E k \in ManyNested : confdelta = << k >>

\* the keys that only one of the two compared maps has
OneSided ==
    ((DOMAIN origconf) \ (DOMAIN curconf)) \cup ((DOMAIN curconf) \ (DOMAIN origconf))

\* C36: compareconf reports no key that only one of the two maps has, so two
\* maps that agree on every key they share compare as unchanged.
C36_OneSidedKeyIgnored ==
    pc = "compared" =>
       /\ \A n \in 1..Len(confdelta) : confdelta[n] \notin OneSided
       /\ (\A k \in (DOMAIN origconf) \cap (DOMAIN curconf) : origconf[k] = curconf[k])
             => confdelta = << >>

\* compareconf has been applied to a first map with a key that the second
\* lacks, the maps agreeing on a key they share
C36_Witness ==
    /\ pc = "compared"
    /\ (DOMAIN origconf) \ (DOMAIN curconf) # {}
    /\ (DOMAIN origconf) \cap (DOMAIN curconf) # {}
    /\ confdelta = << >>

IsCleanupDelete(c) == c.op = "delete" /\ c.kind \in {"set", "stack"}

\* C37: within one run, no Create or Update follows a Stack Delete or a Set
\* Delete, and no Stack Delete follows a Set Delete.
C37_CleanupLast ==
    \A i, j \in CallIdx :
       (i < j /\ calls[i].run = calls[j].run /\ IsCleanupDelete(calls[i]))
         => /\ ~IsCreateOrUpdate(calls[j])
            /\ calls[i].kind = "set" => calls[j].kind # "stack"

\* a run has written a Set, a Rule and a Stack and then deleted a Stack and
\* a Set
C37_Witness ==
    /\ pc = "done"
    /\ \A kind \in {"set", "rule", "stack"} :
          \E n \in CallIdx : calls[n].kind = kind /\ IsCreateOrUpdate(calls[n])
    /\ \A kind \in {"set", "stack"} :
          \E n \in CallIdx : calls[n].kind = kind /\ calls[n].op = "delete"

\* the ids the store has handed out for the Creates of the run
CreatedIds == { NewId(n) : n \in 0..(nextId - 1) }

\* the ids the inventory snapshot holds under a name of the desired document
DesiredLiveIds(kind) ==
    IF kind = "set"
    THEN { IdOf(set_name_config[nm]) : nm \in DesiredSetNames \cap DOMAIN set_name_config }
    ELSE IF kind = "stack"
    THEN { IdOf(stack_name_config[nm]) : nm \in DesiredStackNames \cap DOMAIN stack_name_config }
    ELSE {}

\* C38: no Delete addresses a Set or Stack that the desired document names,
\* nor a Set, Stack or Rule that a Create of the run has made.
C38_NoDeleteOfDesiredOrCreated ==
    \A n \in CallIdx :
       calls[n].op = "delete" =>
          /\ calls[n].id \notin CreatedIds
          /\ calls[n].id \notin DesiredLiveIds(calls[n].kind)

\* the run has created an object, a call has failed, and a Set or a Stack has
\* been deleted while the document names another one that is live
C38_Witness ==
    /\ CreatedIds # {}
    /\ failures > 0
    /\ \E n \in CallIdx :
          /\ calls[n].op = "delete" /\ calls[n].kind \in {"set", "stack"}
          /\ DesiredLiveIds("set") \cup DesiredLiveIds("stack") # {}

ReadFailed(kind) == \E n \in CallIdx : calls[n].op = "get" /\ calls[n].kind = kind /\ ~calls[n].ok

\* the maps of one kind after the load: empty when its read failed, loaded
\* from the store otherwise
KindLoaded(kind) ==
    CASE kind = "stacks" ->
           stack_name_config = IF ReadFailed("stacks") THEN [i \in {} |-> EmptyObj]
                               ELSE ByName(liveStacks)
      [] kind = "sets" ->
           set_name_config = IF ReadFailed("sets") THEN [i \in {} |-> EmptyObj]
                             ELSE ByName(liveSets)
      [] OTHER ->
           \A i \in DOMAIN liveRules :
              LET t == << liveRules[i].set, NameOf(liveRules[i].obj) >>
                  read == \E n \in CallIdx : /\ calls[n].op = "get" /\ calls[n].kind = "rules"
                                             /\ calls[n].set = liveRules[i].set /\ calls[n].ok
              IN  t \in DOMAIN rule_name_id <=> read

\* C35: the catalog load never raises, and when it has ended the maps of a
\* kind whose read failed are empty and those of every other kind are loaded.
C35_FailedReadTolerated ==
    /\ pc # "load_raised"
    /\ (pc = "loaded" /\ ReadsInventory(selection, policytype))
         => \A kind \in {"stacks", "sets", "rules"} : KindLoaded(kind)

\* the objects of the store of the kind that a lookup asks for
StoreOf(c) == IF c.kind = "set" THEN liveSets ELSE liveStacks

\* C34: in a run over all domains no lookup returns an id of another domain,
\* and a Set or Stack name that is found is resolved to the object of that
\* name in the running domain.
C34_LookupsStayInDomain ==
    \A n \in CallIdx :
       /\ calls[n].ids \cap ForeignIds(calls[n].domain) = {}
       /\ calls[n].hit =>
             \E i \in calls[n].ids \cap OwnIds(calls[n].domain) \cap DOMAIN StoreOf(calls[n]) :
                NameOf(StoreOf(calls[n])[i]) = calls[n].name

\* the same Set name and the same Stack name have been found in two
\* domains, each lookup returning another id
C34_Witness ==
    \A kind \in {"set", "stack"} :
       \E m, n \in CallIdx :
          /\ calls[m].kind = kind /\ calls[n].kind = kind
          /\ calls[m].name = calls[n].name
          /\ calls[m].domain # calls[n].domain
          /\ calls[m].hit /\ calls[n].hit
          /\ calls[m].ids \cap calls[n].ids = {}

\* C39: every run of a domain ends, having returned or raised.
C39_RunTerminates == <>RunEnded

\* the run has returned after it visited desired Sets, Rules and Stacks and
\* deleted live objects the document does not name
C39_Witness ==
    /\ pc = "done"
    /\ \A kind \in {"set", "rule", "stack"} : \E v \in visited : v[1] = kind
    /\ \E n \in CallIdx : calls[n].op = "delete"

====
